---------------------------- MODULE Spec2Model ----------------------------
(***************************************************************************)
(* A model of the CRM's Zabbix ingest endpoint and the monitoring-incident *)
(* PATCH endpoint (src/app/routes.py) over the tickets and                 *)
(* monitoring_incidents tables (src/app/models.py), of the schedule        *)
(* optimiser over the appointments table, and of the two scorers           *)
(* (churn risk, engineer load) with Python's float arithmetic.             *)
(*                                                                         *)
(* Every request is served by a process with its own SQLAlchemy session:   *)
(* it is received, reads the committed tables and stages its changes in    *)
(* the session (Lookup), and commits them in one transaction (Commit).     *)
(* Spec lets the requests of several processes interleave between these    *)
(* steps; SeqSpec serves one request at a time.                            *)
(***************************************************************************)
EXTENDS Integers, Sequences, FiniteSets, TLC

VARIABLES
    tickets,    \* the tickets table: a sequence, row id = index
    incidents,  \* the monitoring_incidents table: a sequence, row id = index
    today,      \* the clock's current day (datetime.utcnow().date())
    pc,         \* pc[p]: "idle", "received" (request read), "staged" (session staged)
    req,        \* req[p]: the request process p is serving
    sess,       \* sess[p]: what p's session holds, to be written by its commit
    resp,       \* resp[p]: the response of p's last finished request
    ops,        \* the number of requests received so far
    appointments, \* the appointments table: a sequence, row id = index
    tasks,      \* the tasks table: a sequence, row id = index
    updated_at, \* updated_at[c]: client c's updated_at, as a day
    plan,       \* the last POST /schedule/optimize: its request and its response
    forecast,   \* what the scorers returned when they were last called
    users       \* the users table: a sequence, row id = index

\* The tables and outputs of the optimiser and the scorers, and the users.
dispatch == <<appointments, tasks, updated_at, plan, forecast, users>>

vars == <<tickets, incidents, today, pc, req, sess, resp, ops,
          appointments, tasks, updated_at, plan, forecast, users>>

-----------------------------------------------------------------------------
(* Bounds of the model *)

MaxOps == 3      \* requests received in one behaviour
MaxDay == 1      \* days the clock may advance

Procs == {1, 2, 3}  \* request-serving processes (threads of the server)

-----------------------------------------------------------------------------
(* Values of JSON fields *)

Absent  == "<absent>"   \* the key is not in the JSON object
Null    == "<null>"     \* the key is there with the JSON value null
NonStr  == "<number>"   \* a truthy JSON value that is no string (a number)
Empty   == ""           \* the empty string: present, and falsy in Python

\* bool(value) of data.get(key): a missing key, null and "" are falsy.
Truthy(v) == v \notin {Absent, Null, Empty}

\* str.lower() on the strings the model uses.
LowerTable ==
    [s \in {"Disaster", "DISASTER", "High", "Average", "WARNING", "Information",
            "NOT_CLASSIFIED", "Bogus", "PROBLEM", "Resolved", "RESOLVED", "OK",
            "Ok", "Open", "Cancelled", "Completed"} |->
        CASE s = "Disaster"       -> "disaster"
          [] s = "DISASTER"       -> "disaster"
          [] s = "High"           -> "high"
          [] s = "Average"        -> "average"
          [] s = "WARNING"        -> "warning"
          [] s = "Information"    -> "information"
          [] s = "NOT_CLASSIFIED" -> "not_classified"
          [] s = "Bogus"          -> "bogus"
          [] s = "PROBLEM"        -> "problem"
          [] s = "Resolved"       -> "resolved"
          [] s = "RESOLVED"       -> "resolved"
          [] s = "OK"             -> "ok"
          [] s = "Ok"             -> "ok"
          [] s = "Open"           -> "open"
          [] s = "Cancelled"      -> "cancelled"
          [] s = "Completed"      -> "completed"]

Lower(s) == IF s \in DOMAIN LowerTable THEN LowerTable[s] ELSE s

\* str(value).lower() of a JSON value: null prints as "None", a number as its digits.
StrLower(v) == IF v = Null THEN "none" ELSE IF v = NonStr THEN "5" ELSE Lower(v)

\* int(value): defined on the integer-like raw values, a TypeError or ValueError otherwise.
IntTable == [s \in {"1", "2", "3", "9"} |->
                CASE s = "1" -> 1 [] s = "2" -> 2 [] s = "3" -> 3 [] s = "9" -> 9]

IntParses(v) == v \in DOMAIN IntTable
IntOf(v)     == IntTable[v]

\* datetime.fromisoformat(value): the strings that parse.
IsoStrings == {"2024-05-01T10:00:00"}

-----------------------------------------------------------------------------
(* The tables *)

Clients == {1, 2}        \* ids of the rows of the clients table

NoTicket == 0            \* monitoring_incidents.ticket_id IS NULL
NoDate   == -1           \* tickets.due_date IS NULL

SEVERITY_PRIORITY_MAP ==
    [s \in {"disaster", "high", "average", "warning", "information", "not_classified"} |->
        CASE s = "disaster"       -> "high"
          [] s = "high"           -> "high"
          [] s = "average"        -> "normal"
          [] s = "warning"        -> "normal"
          [] s = "information"    -> "low"
          [] s = "not_classified" -> "low"]

\* A variant of priority_for: an unlisted severity falls to "low".
priority_for_DefaultLow(severity) ==
    IF severity \in DOMAIN SEVERITY_PRIORITY_MAP
    THEN SEVERITY_PRIORITY_MAP[severity]
    ELSE "low"

\* SEVERITY_PRIORITY_MAP.get(severity, "normal")
priority_for(severity) ==
    IF severity \in DOMAIN SEVERITY_PRIORITY_MAP
    THEN SEVERITY_PRIORITY_MAP[severity]
    ELSE "normal"

\* A variant of FindIncident: the lookup never finds the row.
FindIncident_Blind(external_id) == 0

\* MonitoringIncident.query.filter_by(source="zabbix", external_id=...).first():
\* the id of the first matching row, 0 when there is none.
FindIncident(external_id) ==
    LET hits == {i \in 1..Len(incidents) :
                    /\ incidents[i].source = "zabbix"
                    /\ incidents[i].external_id = external_id}
    IN IF hits = {} THEN 0 ELSE CHOOSE i \in hits : \A j \in hits : i <= j

\* A variant of UniqueViolated: the table has no unique constraint.
UniqueViolated_Off(source, external_id) == FALSE

\* uq_incident_source: does inserting a row with this key break the constraint?
UniqueViolated(source, external_id) ==
    \E i \in 1..Len(incidents) :
        /\ incidents[i].source = source
        /\ incidents[i].external_id = external_id

-----------------------------------------------------------------------------
(* Requests, sessions, responses *)

NoReq  == [op |-> "none"]
NoSess == [kind |-> "none"]
NoResp == [op |-> "none", code |-> 0, error |-> "", id |-> 0]
NoPlan == [code |-> 0]
NoForecast == [made |-> FALSE]

Response(op, code, error, id) == [op |-> op, code |-> code, error |-> error, id |-> id]

Init ==
    /\ tickets = <<>>
    /\ incidents = <<>>
    /\ today = 0
    /\ pc = [p \in Procs |-> "idle"]
    /\ req = [p \in Procs |-> NoReq]
    /\ sess = [p \in Procs |-> NoSess]
    /\ resp = [p \in Procs |-> NoResp]
    /\ ops = 0
    /\ appointments = <<>>
    /\ tasks = <<>>
    /\ updated_at = [c \in Clients |-> 0]
    /\ plan = NoPlan
    /\ forecast = NoForecast
    /\ users = <<>>


-----------------------------------------------------------------------------
(* POST /api/integrations/zabbix/events: the request is read *)

IngestRequest(e, c, sv, m, st, oc, pr, a) ==
    [op |-> "ingest", event_id |-> e, client_id |-> c, severity |-> sv,
     message |-> m, status |-> st, occurred_at |-> oc, problem |-> pr,
     assigned_to |-> a]

\* A process takes up request r.
Receive(p, r) ==
    /\ pc[p] = "idle"
    /\ ops < MaxOps
    /\ pc' = [pc EXCEPT ![p] = "received"]
    /\ req' = [req EXCEPT ![p] = r]
    /\ resp' = [resp EXCEPT ![p] = NoResp]
    /\ ops' = ops + 1
    /\ UNCHANGED <<tickets, incidents, today, sess>>
    /\ UNCHANGED dispatch

\* abort(code, description): the request ends, its session is discarded.
Abort(p, code, error) ==
    /\ pc' = [pc EXCEPT ![p] = "idle"]
    /\ req' = [req EXCEPT ![p] = NoReq]
    /\ sess' = [sess EXCEPT ![p] = NoSess]
    /\ resp' = [resp EXCEPT ![p] = Response(req[p].op, code, error, 0)]
    /\ UNCHANGED <<tickets, incidents, today, ops>>
    /\ UNCHANGED dispatch

\* The session is staged; the commit is the next step of the request.
Stage(p, s) ==
    /\ pc' = [pc EXCEPT ![p] = "staged"]
    /\ sess' = [sess EXCEPT ![p] = s]
    /\ UNCHANGED <<tickets, incidents, today, req, resp, ops>>
    /\ UNCHANGED dispatch

\* A variant of MissingRequired: message is not among the required fields.
MissingRequired_NoMessage(r) ==
    \/ r.event_id = Absent
    \/ r.client_id = Absent
    \/ r.severity = Absent

\* if any(field not in data for field in required_fields)
MissingRequired(r) ==
    \/ r.event_id = Absent
    \/ r.client_id = Absent
    \/ r.severity = Absent
    \/ r.message = Absent

\* A variant of StagedUpdate: the status is compared before it is lowercased.
StagedUpdate_CaseSensitive(r, id) ==
    LET row == incidents[id]
    IN [kind     |-> "update",
        id       |-> id,
        loaded   |-> row,
        status   |-> IF Truthy(r.status) THEN StrLower(r.status) ELSE row.status,
        severity |-> StrLower(r.severity),
        message  |-> r.message,
        resolve  |-> IF /\ Truthy(r.status)
                        /\ row.ticket_id # NoTicket
                        /\ r.status \in {"resolved", "ok"}
                     THEN row.ticket_id
                     ELSE NoTicket,
        ticket_was |-> IF row.ticket_id # NoTicket
                       THEN tickets[row.ticket_id].status
                       ELSE ""]

\* The update path up to its commit: the columns assigned on the loaded row.
StagedUpdate(r, id) ==
    LET row        == incidents[id]
        severity   == StrLower(r.severity)
        new_status == StrLower(r.status)
    IN [kind     |-> "update",
        id       |-> id,
        loaded   |-> row,
        status   |-> IF Truthy(r.status) THEN new_status ELSE row.status,
        severity |-> severity,
        message  |-> r.message,
        \* existing.ticket.status = "resolved"
        resolve  |-> IF /\ Truthy(r.status)
                        /\ row.ticket_id # NoTicket
                        /\ new_status \in {"resolved", "ok"}
                     THEN row.ticket_id
                     ELSE NoTicket,
        ticket_was |-> IF row.ticket_id # NoTicket
                       THEN tickets[row.ticket_id].status
                       ELSE ""]

\* ticket_subject = data.get("problem") or f"Zabbix incident {data['event_id']}"
TicketSubject(r) ==
    IF Truthy(r.problem)
    THEN <<"[Zabbix] ", r.problem>>
    ELSE <<"[Zabbix] ", "Zabbix incident ", r.event_id>>

\* A variant of NewTicket: the due date is today, the day is not added.
NewTicket_DueToday(r) ==
    LET priority == priority_for(StrLower(r.severity))
    IN [client_id   |-> IntOf(r.client_id),
        subject     |-> TicketSubject(r),
        description |-> r.message,
        priority    |-> priority,
        status      |-> "open",
        assigned_to |-> IF Truthy(r.assigned_to) THEN r.assigned_to ELSE "Monitoring",
        due_date    |-> IF priority = "high" THEN today ELSE NoDate]

\* The Ticket object of the create path, before it has an id.
NewTicket(r) ==
    LET priority == priority_for(StrLower(r.severity))
    IN [client_id   |-> IntOf(r.client_id),
        subject     |-> TicketSubject(r),
        description |-> r.message,
        priority    |-> priority,
        status      |-> "open",
        assigned_to |-> IF Truthy(r.assigned_to) THEN r.assigned_to ELSE "Monitoring",
        due_date    |-> IF priority = "high" THEN today + 1 ELSE NoDate]

\* A variant of OccurredAtOutcome: a string that does not parse is kept as it is.
OccurredAtOutcome_Lenient(r) ==
    IF ~Truthy(r.occurred_at) THEN "utcnow"
    ELSE IF r.occurred_at = NonStr THEN "TypeError"
    ELSE "parsed"

\* How the create path's reading of occurred_at ends: "utcnow" when the value is
\* falsy and the clock is used, "parsed", "ValueError" (caught, abort 400) or
\* "TypeError" (fromisoformat of a value that is no string; nothing catches it).
OccurredAtOutcome(r) ==
    IF ~Truthy(r.occurred_at) THEN "utcnow"
    ELSE IF r.occurred_at = NonStr THEN "TypeError"
    ELSE IF r.occurred_at \notin IsoStrings THEN "ValueError"
    ELSE "parsed"

\* occurred_at of the new incident: the parsed value, or utcnow().
OccurredAt(r) ==
    IF Truthy(r.occurred_at)
    THEN [at |-> "parsed", value |-> r.occurred_at, day |-> 0]
    ELSE [at |-> "utcnow", value |-> "", day |-> today]

\* The MonitoringIncident object of the create path, before it is linked.
NewIncident(r) ==
    [client_id   |-> IntOf(r.client_id),
     source      |-> "zabbix",
     external_id |-> r.event_id,
     severity    |-> StrLower(r.severity),
     message     |-> r.message,
     \* str(data.get("status", "open")).lower()
     status      |-> IF r.status = Absent THEN "open" ELSE StrLower(r.status),
     occurred_at |-> OccurredAt(r),
     ticket_id   |-> NoTicket]

\* ingest_zabbix_event up to db.session.commit().
LookupIngest(p) ==
    LET r == req[p] IN
    /\ pc[p] = "received"
    /\ r.op = "ingest"
    /\ IF MissingRequired(r)
       THEN Abort(p, 400, "Missing required Zabbix event fields")
       ELSE IF ~IntParses(r.client_id)
       THEN Abort(p, 400, "Invalid client id")
       ELSE IF IntOf(r.client_id) \notin Clients
       THEN Abort(p, 404, "Not Found")
       ELSE LET existing == FindIncident(r.event_id) IN
            IF existing # 0
            THEN Stage(p, StagedUpdate(r, existing))
            ELSE IF OccurredAtOutcome(r) = "TypeError"
            THEN Abort(p, 500, "TypeError")
            ELSE IF OccurredAtOutcome(r) = "ValueError"
            THEN Abort(p, 400, "Invalid occurred_at")
            ELSE Stage(p, [kind |-> "create", ticket |-> NewTicket(r),
                           incident |-> NewIncident(r)])

-----------------------------------------------------------------------------
(* db.session.commit() *)

\* The request ends with a response.
Finish(p, code, error, id) ==
    /\ pc' = [pc EXCEPT ![p] = "idle"]
    /\ req' = [req EXCEPT ![p] = NoReq]
    /\ sess' = [sess EXCEPT ![p] = NoSess]
    /\ resp' = [resp EXCEPT ![p] = Response(req[p].op, code, error, id)]
    /\ UNCHANGED <<today, ops>>
    /\ UNCHANGED dispatch

\* A variant of Written: the message of the first event is kept.
Written_KeepsMessage(row, s) ==
    [row EXCEPT !.status   = IF s.status # s.loaded.status THEN s.status ELSE @,
                !.severity = IF s.severity # s.loaded.severity THEN s.severity ELSE @]

\* The unit of work writes the columns whose value differs from the loaded one.
Written(row, s) ==
    [row EXCEPT !.status   = IF s.status # s.loaded.status THEN s.status ELSE @,
                !.severity = IF s.severity # s.loaded.severity THEN s.severity ELSE @,
                !.message  = IF s.message # s.loaded.message THEN s.message ELSE @]

\* A variant of CommitUpdate: the linked ticket takes the priority of the new
\* severity.
CommitUpdate_Reprioritises(p) ==
    LET s == sess[p] IN
    /\ pc[p] = "staged"
    /\ s.kind = "update"
    /\ incidents' = [incidents EXCEPT ![s.id] = Written(@, s)]
    /\ tickets' = IF s.loaded.ticket_id # NoTicket
                  THEN [tickets EXCEPT ![s.loaded.ticket_id].priority = priority_for(s.severity),
                                       ![s.loaded.ticket_id].status =
                                           IF s.resolve # NoTicket THEN "resolved" ELSE @]
                  ELSE tickets
    /\ Finish(p, 200, "", s.id)

\* A variant of CommitUpdate: the linked ticket follows the incident back to
\* open.
CommitUpdate_Reopens(p) ==
    LET s == sess[p] IN
    /\ pc[p] = "staged"
    /\ s.kind = "update"
    /\ incidents' = [incidents EXCEPT ![s.id] = Written(@, s)]
    /\ tickets' = IF s.loaded.ticket_id = NoTicket THEN tickets
                  ELSE [tickets EXCEPT ![s.loaded.ticket_id].status =
                           IF s.resolve # NoTicket THEN "resolved"
                           ELSE IF s.status # s.loaded.status THEN "open"
                           ELSE @]
    /\ Finish(p, 200, "", s.id)

\* The commit of the update path.
CommitUpdate(p) ==
    LET s == sess[p] IN
    /\ pc[p] = "staged"
    /\ s.kind = "update"
    /\ incidents' = [incidents EXCEPT ![s.id] = Written(@, s)]
    /\ tickets' = IF s.resolve # NoTicket /\ s.ticket_was # "resolved"
                  THEN [tickets EXCEPT ![s.resolve].status = "resolved"]
                  ELSE tickets
    /\ Finish(p, 200, "", s.id)

\* A variant of CreateConflict: the INSERT of the ticket is not rolled back.
CreateConflict_KeepsTicket(p) ==
    /\ tickets' = Append(tickets, sess[p].ticket)
    /\ incidents' = incidents
    /\ Finish(p, 500, "IntegrityError", 0)

\* The INSERT of the incident hits uq_incident_source: the transaction, with
\* the INSERT of the ticket before it, is rolled back; the IntegrityError is
\* not caught and the request ends 500.
CreateConflict(p) ==
    /\ tickets' = tickets
    /\ incidents' = incidents
    /\ Finish(p, 500, "IntegrityError", 0)

\* Both rows are inserted in one transaction: the ticket first, then the
\* incident carrying its id.
CreateBoth(p) ==
    LET s == sess[p]
        ticket_id == Len(tickets) + 1
    IN /\ tickets' = Append(tickets, s.ticket)
       /\ incidents' = Append(incidents, [s.incident EXCEPT !.ticket_id = ticket_id])
       /\ Finish(p, 201, "", Len(incidents) + 1)

\* The commit of the create path.
CommitCreate(p) ==
    LET s == sess[p] IN
    /\ pc[p] = "staged"
    /\ s.kind = "create"
    /\ IF UniqueViolated(s.incident.source, s.incident.external_id)
       THEN CreateConflict(p)
       ELSE CreateBoth(p)

\* utcnow() moves to the next day.
Tick ==
    /\ today < MaxDay
    /\ today' = today + 1
    /\ UNCHANGED <<tickets, incidents, pc, req, sess, resp, ops>>
    /\ UNCHANGED dispatch

-----------------------------------------------------------------------------
(* PATCH /api/monitoring/incidents/<incident_id> *)

PatchRequest(incident_id, status, severity, message, ticket_id) ==
    [op |-> "patch", incident_id |-> incident_id, status |-> status,
     severity |-> severity, message |-> message, ticket_id |-> ticket_id]

\* ticket.monitoring_incident as the session loads it when incident.ticket is
\* assigned: the id of an incident that holds the ticket, 0 when there is none.
ReferencedBy(ticket_id) ==
    IF \E i \in 1..Len(incidents) : incidents[i].ticket_id = ticket_id
    THEN CHOOSE i \in 1..Len(incidents) :
            /\ incidents[i].ticket_id = ticket_id
            /\ \A j \in 1..Len(incidents) : incidents[j].ticket_id = ticket_id => i <= j
    ELSE 0

\* The columns assigned on the loaded incident before the commit, and the
\* incident the assigned ticket is taken from (Ticket.monitoring_incident is a
\* scalar: the unit of work nulls the ticket_id of the incident it replaces).
StagedPatch(r, ticket_id) ==
    LET row == incidents[r.incident_id]
    IN [kind      |-> "patch",
        id        |-> r.incident_id,
        loaded    |-> row,
        status    |-> IF r.status # Absent THEN StrLower(r.status) ELSE row.status,
        severity  |-> IF r.severity # Absent THEN StrLower(r.severity) ELSE row.severity,
        message   |-> IF r.message # Absent THEN r.message ELSE row.message,
        ticket_id |-> ticket_id,
        replaced  |-> IF /\ r.ticket_id \notin {Absent, Null}
                         /\ ReferencedBy(ticket_id) # r.incident_id
                      THEN ReferencedBy(ticket_id)
                      ELSE 0]

\* update_monitoring_incident up to db.session.commit().
LookupPatch(p) ==
    LET r == req[p] IN
    /\ pc[p] = "received"
    /\ r.op = "patch"
    /\ IF r.incident_id \notin 1..Len(incidents)
       THEN Abort(p, 404, "Not Found")
       ELSE IF r.ticket_id = Absent
       THEN Stage(p, StagedPatch(r, incidents[r.incident_id].ticket_id))
       ELSE IF r.ticket_id = Null
       THEN Stage(p, StagedPatch(r, NoTicket))
       ELSE IF ~IntParses(r.ticket_id)
       THEN Abort(p, 400, "Invalid ticket id")
       ELSE IF IntOf(r.ticket_id) \notin 1..Len(tickets)
       THEN Abort(p, 404, "Not Found")
       ELSE Stage(p, StagedPatch(r, IntOf(r.ticket_id)))

\* A variant of CommitPatch: the incident the ticket is taken from keeps its
\* ticket_id.
CommitPatch_KeepsOldLink(p) ==
    LET s == sess[p] IN
    /\ pc[p] = "staged"
    /\ s.kind = "patch"
    /\ incidents' = [incidents EXCEPT ![s.id] =
                        [Written(@, s) EXCEPT !.ticket_id =
                            IF s.ticket_id # s.loaded.ticket_id THEN s.ticket_id ELSE @]]
    /\ tickets' = tickets
    /\ Finish(p, 200, "", s.id)

\* The commit of the PATCH: the changed columns of the incident row, and NULL
\* in the ticket_id of the incident the ticket is taken from.
CommitPatch(p) ==
    LET s == sess[p] IN
    /\ pc[p] = "staged"
    /\ s.kind = "patch"
    /\ incidents' =
         [i \in 1..Len(incidents) |->
            IF i = s.id
            THEN [Written(incidents[i], s) EXCEPT !.ticket_id =
                     IF s.ticket_id # s.loaded.ticket_id THEN s.ticket_id ELSE @]
            ELSE IF i = s.replaced
            THEN [incidents[i] EXCEPT !.ticket_id = NoTicket]
            ELSE incidents[i]]
    /\ tickets' = tickets
    /\ Finish(p, 200, "", s.id)

-----------------------------------------------------------------------------
(* The requests the model sends *)

EventIds == {"E1", "E2"}

\* The values each field of an event takes, in the order of IngestRequest's parameters.
EventFieldValues ==
    << EventIds \cup {Absent},
       {"1", "2", "9", "x", Absent},
       {"Disaster", "information", Absent},
       {"m1", "m2", Absent},
       {Absent, Empty, "PROBLEM", "Resolved", "OK"},
       {Absent, Empty, "2024-05-01T10:00:00", "yesterday", NonStr},
       {Absent, "disk full"},
       {Absent, "bob"} >>

\* The tuple t and every tuple that differs from it in one field.
OneChanged(t, values) ==
    {t} \cup {[t EXCEPT ![i] = v] : <<i, v>> \in
                UNION {{<<j, w>> : w \in values[j]} : j \in 1..Len(t)}}

\* The plain event of a key: the required fields only.
PlainEvent(e) == <<e, "1", "Disaster", "m1", Absent, Absent, Absent, Absent>>

\* For every key, its plain event and the events one field away from it.
IngestRequests ==
    {IngestRequest(t[1], t[2], t[3], t[4], t[5], t[6], t[7], t[8]) :
        t \in UNION {OneChanged(PlainEvent(e), EventFieldValues) : e \in EventIds}}

PatchFieldValues ==
    << 1..2,
       {Absent, "Resolved", "Open"},
       {Absent, "High"},
       {Absent, "m3"},
       {Absent, Null, "1", "2", "x"} >>

\* The PATCH of an incident that changes nothing: an empty JSON object.
PlainPatch(i) == <<i, Absent, Absent, Absent, Absent>>

PatchRequests ==
    {PatchRequest(t[1], t[2], t[3], t[4], t[5]) :
        t \in UNION {OneChanged(PlainPatch(i), PatchFieldValues) : i \in 1..2}}

\* The requests of the interleaved runs.
RaceRequests ==
    {r \in IngestRequests :
        /\ r.client_id \in {"1", "9"}
        /\ r.severity = "Disaster"
        /\ r.message = "m1"
        /\ r.status \in {Absent, "Resolved"}
        /\ r.occurred_at \in {Absent, "yesterday"}
        /\ r.problem = Absent
        /\ r.assigned_to = Absent}
    \cup {r \in PatchRequests :
            /\ r.incident_id = 1
            /\ r.status \in {Absent, "Resolved"}
            /\ r.severity = Absent
            /\ r.message = Absent
            /\ r.ticket_id \in {Absent, Null, "2"}}

Next ==
    \/ \E p \in Procs, r \in RaceRequests : Receive(p, r)
    \/ \E p \in Procs : LookupIngest(p)
    \/ \E p \in Procs : LookupPatch(p)
    \/ \E p \in Procs : CommitUpdate(p)
    \/ \E p \in Procs : CommitCreate(p)
    \/ \E p \in Procs : CommitPatch(p)
    \/ Tick

Spec == Init /\ [][Next]_vars

\* One request at a time, served by process 1.
SeqNext ==
    \/ \E r \in IngestRequests \cup PatchRequests : Receive(1, r)
    \/ LookupIngest(1)
    \/ LookupPatch(1)
    \/ CommitUpdate(1)
    \/ CommitCreate(1)
    \/ CommitPatch(1)
    \/ (pc[1] = "idle" /\ Tick)

SeqSpec == Init /\ [][SeqNext]_vars

\* Interleaved ingest requests alone: no PATCH is sent.
IngestNext ==
    \/ \E p \in Procs, r \in {q \in RaceRequests : q.op = "ingest"} : Receive(p, r)
    \/ \E p \in Procs : LookupIngest(p)
    \/ \E p \in Procs : CommitUpdate(p)
    \/ \E p \in Procs : CommitCreate(p)
    \/ Tick

IngestSpec == Init /\ [][IngestNext]_vars

\* Severities as monitoring systems send them: the listed ones in several
\* spellings, unlisted ones, the empty string, null and a number.
Severities ==
    {"disaster", "Disaster", "DISASTER", "high", "High", "average", "Average",
     "warning", "WARNING", "information", "Information", "not_classified",
     "NOT_CLASSIFIED", "bogus", "Bogus", Empty, Null, NonStr}

SeverityRequests ==
    {IngestRequest(e, "1", sv, "m1", Absent, Absent, Absent, Absent) :
        e \in EventIds, sv \in Severities}

\* Sequential ingest of events of every severity.
SeverityNext ==
    \/ \E r \in SeverityRequests : Receive(1, r)
    \/ LookupIngest(1)
    \/ CommitUpdate(1)
    \/ CommitCreate(1)

SeveritySpec == Init /\ [][SeverityNext]_vars

-----------------------------------------------------------------------------
(* Python floats: IEEE-754 doubles                                            *)
(*                                                                            *)
(* A non-negative double is the set of the exponents of its binary digits:    *)
(* {-1, -3} is 2^-1 + 2^-3. A set stands for a double when its digits span at *)
(* most 53 places; the exact result of an operation is rounded to the nearest *)
(* such set, ties to the even one.                                            *)

\* The places a digit can stand at in the model.
Places == -90..40

\* The set of digits written out.
Digits(s) == {i \in Places : i \in s}

MaxOf(S) == CHOOSE i \in S : \A j \in S : j <= i

\* The exact sum of two binary numbers: digits added without carry, then the carries.
RECURSIVE BinAdd(_, _)
BinAdd(a, b) ==
    IF b = {} THEN a
    ELSE BinAdd({i \in Places : (i \in a) # (i \in b)}, {i + 1 : i \in Digits(a \cap b)})

\* Round to 53 significant digits, to nearest, ties to even.
RoundDouble(s) ==
    IF s = {} THEN {}
    ELSE LET cut  == MaxOf(s) - 52
             kept == {i \in s : i >= cut}
             up   == /\ (cut - 1) \in s
                     /\ (cut \in s \/ \E i \in s : i < cut - 1)
         IN IF up THEN BinAdd(kept, {cut}) ELSE kept

\* The binary digits of a natural number.
IntBits(n) == {k \in 0..30 : (n \div 2^k) % 2 = 1}

\* The exact product of a binary number and the natural number with digits ks.
RECURSIVE SumShifts(_, _)
SumShifts(ks, x) ==
    IF ks = {} THEN {}
    ELSE LET k == CHOOSE j \in ks : TRUE
         IN BinAdd({i + k : i \in x}, SumShifts(Digits(ks \ {k}), x))

\* Long division of r by q (r < q < 2^11), twenty digits at a time: the digits
\* of r / q at the places -1 to -80; what is left beyond them is kept as one
\* digit at -81, which rounding sees as "more".
FracBits(r, q) ==
    LET d1 == (r * 2^20) \div q
        r1 == (r * 2^20) % q
        d2 == (r1 * 2^20) \div q
        r2 == (r1 * 2^20) % q
        d3 == (r2 * 2^20) \div q
        r3 == (r2 * 2^20) % q
        d4 == (r3 * 2^20) \div q
        r4 == (r3 * 2^20) % q
    IN {k - 20 : k \in IntBits(d1)} \cup {k - 40 : k \in IntBits(d2)}
         \cup {k - 60 : k \in IntBits(d3)} \cup {k - 80 : k \in IntBits(d4)}
         \cup (IF r4 # 0 THEN {-81} ELSE {})

\* p / q of two ints (true division), and the float literal written p/q in
\* decimal (0.05 is FloatDiv(5, 100)): the double nearest to the quotient.
FloatDiv(p, q) == RoundDouble(Digits(IntBits(p \div q) \cup FracBits(p % q, q)))

\* x + y of two floats.
FloatAdd(x, y) == RoundDouble(BinAdd(x, y))

\* n * x of an int and a float.
FloatMul(n, x) == RoundDouble(SumShifts(IntBits(n), x))

\* x < y, x <= y, x >= y of two floats.
FloatLess(x, y) == x # y /\ MaxOf((x \ y) \cup (y \ x)) \in y
FloatLeq(x, y)  == x = y \/ FloatLess(x, y)
FloatGeq(x, y)  == FloatLeq(y, x)

\* min(x, y): the first argument unless the second is smaller.
FloatMin(x, y) == IF FloatLess(y, x) THEN y ELSE x

\* The integer part of a binary number.
RECURSIVE IntPart(_)
IntPart(s) ==
    LET ds == {i \in s : i >= 0}
    IN IF ds = {} THEN 0
       ELSE LET d == CHOOSE i \in ds : TRUE
            IN 2^d + IntPart(Digits(ds \ {d}))

\* round(x, 2), in hundredths: the exact value of x rounded to two decimals,
\* ties to even; round(x, 2) is the double nearest to Hundredths(x) / 100.
Hundredths(x) ==
    LET s == SumShifts(IntBits(100), x)
        n == IntPart(s)
        up == /\ -1 \in s
              /\ (n % 2 = 1 \/ \E i \in s : i < -1)
    IN IF up THEN n + 1 ELSE n

-----------------------------------------------------------------------------
(* The scorers: calculate_churn_risk and calculate_engineer_load *)

\* The rows of a table at the ids of a set, in table order.
RECURSIVE Pick(_, _)
Pick(table, ids) ==
    IF ids = {} THEN <<>>
    ELSE LET last == MaxOf(ids)
         IN Append(Pick(table, {i \in ids : i # last}), table[last])

\* The float literals of the scorers.
F_0_05 == FloatDiv(5, 100)
F_0_08 == FloatDiv(8, 100)
F_0_1  == FloatDiv(1, 10)
F_0_2  == FloatDiv(2, 10)
F_0_3  == FloatDiv(3, 10)
F_0_35 == FloatDiv(35, 100)
F_0_6  == FloatDiv(6, 10)
F_0_8  == FloatDiv(8, 10)
F_0_95 == FloatDiv(95, 100)
F_1_0  == FloatDiv(1, 1)

\* The rows of a table that belong to a client (client.tickets, client.tasks,
\* client.appointments), in table order.
RowsOf(table, client_id) ==
    Pick(table, {i \in 1..Len(table) : table[i].client_id = client_id})

\* A task counted as overdue by the churn scorer.
IsOverdue(task) ==
    /\ task.status # "completed"
    /\ task.due_date # NoDate
    /\ task.due_date < today

\* A variant of ChurnProbability: the sum is not capped.
ChurnProbability_Uncapped(open_tickets, high_priority, overdue_tasks, missed, days) ==
    LET p1 == FloatAdd(F_0_05, FloatMin(F_0_3, FloatMul(open_tickets, F_0_05)))
        p2 == FloatAdd(p1, FloatMin(F_0_3, FloatMul(high_priority, F_0_1)))
        p3 == FloatAdd(p2, FloatMin(F_0_2, FloatMul(overdue_tasks, F_0_08)))
        p4 == FloatAdd(p3, IF missed # 0 THEN F_0_1 ELSE {})
    IN FloatAdd(p4, IF days > 30 THEN F_0_05 ELSE {})

\* probability = 0.05, the five "probability +=" and the cap at 0.95.
ChurnProbability(open_tickets, high_priority, overdue_tasks, missed, days) ==
    LET p1 == FloatAdd(F_0_05, FloatMin(F_0_3, FloatMul(open_tickets, F_0_05)))
        p2 == FloatAdd(p1, FloatMin(F_0_3, FloatMul(high_priority, F_0_1)))
        p3 == FloatAdd(p2, FloatMin(F_0_2, FloatMul(overdue_tasks, F_0_08)))
        p4 == FloatAdd(p3, IF missed # 0 THEN F_0_1 ELSE {})
        p5 == FloatAdd(p4, IF days > 30 THEN F_0_05 ELSE {})
    IN FloatMin(p5, F_0_95)

\* The label of a probability.
ChurnLabel(probability) ==
    IF FloatGeq(probability, F_0_6) THEN "high"
    ELSE IF FloatGeq(probability, F_0_35) THEN "medium"
    ELSE "low"

\* A variant of calculate_churn_risk: a completed task counts as overdue too.
calculate_churn_risk_AnyStatus(client, tks, tsks, appts) ==
    LET open_tickets  == Cardinality({i \in 1..Len(tks) : tks[i].status = "open"})
        high_priority == Cardinality({i \in 1..Len(tks) :
                                tks[i].status = "open" /\ tks[i].priority = "high"})
        overdue_tasks == Cardinality({i \in 1..Len(tsks) :
                                tsks[i].due_date # NoDate /\ tsks[i].due_date < today})
        missed_appointments == Cardinality({i \in 1..Len(appts) : appts[i].status = "cancelled"})
        days_since_touch == today - client.updated_at
        probability == ChurnProbability(open_tickets, high_priority, overdue_tasks,
                                        missed_appointments, days_since_touch)
    IN [probability |-> probability, label |-> ChurnLabel(probability)]

\* calculate_churn_risk(client, tickets, tasks, appointments)
calculate_churn_risk(client, tks, tsks, appts) ==
    LET open_tickets  == Cardinality({i \in 1..Len(tks) : tks[i].status = "open"})
        high_priority == Cardinality({i \in 1..Len(tks) :
                                tks[i].status = "open" /\ tks[i].priority = "high"})
        overdue_tasks == Cardinality({i \in 1..Len(tsks) : IsOverdue(tsks[i])})
        missed_appointments == Cardinality({i \in 1..Len(appts) : appts[i].status = "cancelled"})
        days_since_touch == today - client.updated_at
        probability == ChurnProbability(open_tickets, high_priority, overdue_tasks,
                                        missed_appointments, days_since_touch)
    IN [probability |-> probability, label |-> ChurnLabel(probability)]

\* The keys of the workload dict in insertion order: the engineers of the
\* qualifying rows, each once, in the order they are first met.
RECURSIVE FirstSeen(_, _)
FirstSeen(names, seen) ==
    IF names = <<>> THEN seen
    ELSE FirstSeen(Tail(names),
                   IF \E i \in 1..Len(seen) : seen[i] = Head(names)
                   THEN seen ELSE Append(seen, Head(names)))

\* sum of duration_minutes over a sequence of appointments.
RECURSIVE SumMinutes(_)
SumMinutes(appts) ==
    IF appts = <<>> THEN 0
    ELSE Head(appts).duration_minutes + SumMinutes(Tail(appts))

\* The forecast entry of one engineer.
EngineerForecast(engineer, open_tasks, scheduled_minutes) ==
    LET utilisation == FloatMin(F_1_0, FloatDiv(scheduled_minutes, 480))
        score       == FloatMin(F_1_0, FloatAdd(FloatMul(open_tasks, F_0_05), utilisation))
    IN [engineer          |-> engineer,
        open_tasks        |-> open_tasks,
        scheduled_minutes |-> scheduled_minutes,
        \* round(utilisation, 2)
        utilisation       |-> FloatDiv(Hundredths(utilisation), 100),
        status            |-> IF FloatGeq(score, F_0_8) THEN "overloaded"
                              ELSE IF FloatLeq(score, F_0_35) THEN "underutilised"
                              ELSE "balanced"]

\* calculate_engineer_load(tasks, appointments)["engineers"]
calculate_engineer_load(tsks, appts) ==
    LET open   == Pick(tsks, {i \in 1..Len(tsks) :
                        tsks[i].status # "completed" /\ Truthy(tsks[i].assigned_to)})
        booked == Pick(appts, {i \in 1..Len(appts) :
                        appts[i].status = "scheduled" /\ Truthy(appts[i].assigned_to)})
        names  == [i \in 1..Len(open) |-> open[i].assigned_to]
                    \o [i \in 1..Len(booked) |-> booked[i].assigned_to]
        workload == FirstSeen(names, <<>>)
    IN [k \in 1..Len(workload) |->
          EngineerForecast(
              workload[k],
              Cardinality({i \in 1..Len(open) : open[i].assigned_to = workload[k]}),
              SumMinutes(Pick(booked, {i \in 1..Len(booked) :
                                          booked[i].assigned_to = workload[k]})))]

\* GET /api/analytics/forecasts: every client's churn and the engineers' load.
analytics_forecasts ==
    LET returned == [c \in Clients |->
                        calculate_churn_risk([updated_at |-> updated_at[c]],
                                             RowsOf(tickets, c), RowsOf(tasks, c),
                                             RowsOf(appointments, c))]
    IN /\ forecast' =
            [made         |-> TRUE,
             returned     |-> returned,
             client_churn |-> [c \in Clients |->
                 [churn_probability |-> FloatDiv(Hundredths(returned[c].probability), 100),
                  churn_level       |-> returned[c].label]],
             engineer_load |-> calculate_engineer_load(tasks, appointments)]
       /\ UNCHANGED <<tickets, incidents, today, pc, req, sess, resp, ops>>
       /\ UNCHANGED <<appointments, tasks, updated_at, plan, users>>

-----------------------------------------------------------------------------
(* The stores the scorers are called on *)

MaxTickets == 7     \* open tickets of the scored client
MaxOverdue == 3     \* overdue tasks of the scored client
MaxTasks == 3     \* rows of the tasks table when the load is scored
MaxVisits == 1     \* rows of the appointments table when the load is scored

Repeat(row, n) == [i \in 1..n |-> row]

TicketRow(client_id, status, priority) ==
    [client_id |-> client_id, subject |-> <<"ticket">>, description |-> "",
     priority |-> priority, status |-> status, assigned_to |-> "Monitoring",
     due_date |-> NoDate]

TaskRow(client_id, status, due_date, assigned_to) ==
    [client_id |-> client_id, status |-> status, due_date |-> due_date,
     assigned_to |-> assigned_to]

AppointmentRow(client_id, start_time, duration_minutes, status, assigned_to) ==
    [client_id |-> client_id, start_time |-> start_time,
     duration_minutes |-> duration_minutes, status |-> status,
     assigned_to |-> assigned_to]

\* No request is being served and nothing has been planned or forecast.
Quiet ==
    /\ incidents = <<>>
    /\ pc = [p \in Procs |-> "idle"]
    /\ req = [p \in Procs |-> NoReq]
    /\ sess = [p \in Procs |-> NoSess]
    /\ resp = [p \in Procs |-> NoResp]
    /\ ops = 0
    /\ plan = NoPlan
    /\ forecast = NoForecast
    /\ users = <<>>

\* The tasks that do not count for client 1: a completed task that is past its
\* date, a pending task without a date, a task due on day 1, a task of client 2.
OtherTasks ==
    << TaskRow(1, "completed", 0, "alice"), TaskRow(1, "pending", NoDate, "alice"),
       TaskRow(1, "in_progress", 1, "bob"), TaskRow(2, "pending", 0, "bob") >>

\* The tickets that do not count for client 1.
OtherTickets ==
    << TicketRow(1, "resolved", "high"), TicketRow(2, "open", "high") >>

\* The appointments that do not count for client 1.
OtherAppointments ==
    << AppointmentRow(1, 540, 60, "scheduled", "alice"),
       AppointmentRow(1, 600, 60, "completed", "alice"),
       AppointmentRow(2, 540, 60, "cancelled", "bob") >>

\* A store of client 1 with h open high tickets, n other open tickets and d
\* pending tasks due on day 0, last touched 5 or 30 days before day 0; beside
\* them either nothing, or a cancelled appointment of client 1, or the rows
\* that do not count for client 1.
ChurnInit ==
    /\ Quiet
    /\ today = 0
    /\ \E h \in 0..MaxTickets, n \in 0..MaxTickets, d \in 0..MaxOverdue :
       \E beside \in {"nothing", "cancelled", "others"}, u \in {-30, -5} :
          /\ h + n + (IF beside = "others" THEN 1 ELSE 0) <= MaxTickets
          /\ tickets = Repeat(TicketRow(1, "open", "high"), h)
                         \o Repeat(TicketRow(1, "open", "normal"), n)
                         \o (IF beside = "others" THEN OtherTickets ELSE <<>>)
          /\ tasks = Repeat(TaskRow(1, "pending", 0, "alice"), d)
                         \o (IF beside = "others" THEN OtherTasks ELSE <<>>)
          /\ appointments =
                CASE beside = "nothing"   -> <<>>
                  [] beside = "cancelled" -> <<AppointmentRow(1, 540, 60, "cancelled", "alice")>>
                  [] beside = "others"    -> OtherAppointments
          /\ updated_at = [c \in Clients |-> IF c = 1 THEN u ELSE -5]

\* The forecast is asked for on some day.
ChurnNext ==
    \/ analytics_forecasts
    \/ (forecast = NoForecast /\ Tick)

ChurnSpec == ChurnInit /\ [][ChurnNext]_vars

\* The tasks and appointments the load is scored on.
LoadTaskRows ==
    { TaskRow(1, "pending", NoDate, "alice"), TaskRow(1, "completed", NoDate, "alice"),
      TaskRow(1, "in_progress", NoDate, "bob"), TaskRow(1, "pending", NoDate, Null),
      TaskRow(1, "pending", NoDate, Empty) }

LoadVisitRows ==
    { AppointmentRow(1, 540, 96, "scheduled", "alice"),
      AppointmentRow(1, 540, 336, "scheduled", "alice"),
      AppointmentRow(1, 540, 336, "cancelled", "alice"),
      AppointmentRow(1, 540, 480, "scheduled", "bob"),
      AppointmentRow(1, 540, 96, "scheduled", Null) }

LoadInit ==
    /\ Quiet
    /\ today = 0
    /\ tickets = <<>>
    /\ updated_at = [c \in Clients |-> 0]
    /\ tasks \in UNION {[1..k -> LoadTaskRows] : k \in 0..MaxTasks}
    /\ appointments \in UNION {[1..k -> LoadVisitRows] : k \in 0..MaxVisits}

LoadNext ==
    \/ analytics_forecasts
    \/ (forecast = NoForecast /\ Tick)

LoadSpec == LoadInit /\ [][LoadNext]_vars

-----------------------------------------------------------------------------
(* POST /api/clients/<client_id>/appointments *)

MaxAppts == 3    \* rows of the appointments table when the day is planned

\* datetime.fromisoformat(value), as minutes since 2024-05-01T00:00 (an aware
\* value is first moved to UTC): the strings that parse.
DateTimeTable ==
    [s \in {"2024-05-01T08:00:00", "2024-05-01T09:00:00", "2024-05-01T11:00:00+02:00",
            "2024-05-01T09:15:00", "2024-05-02T09:00:00", "2024-05-01", "2024-05-02"} |->
        CASE s = "2024-05-01T08:00:00"       -> 480
          [] s = "2024-05-01T09:00:00"       -> 540
          [] s = "2024-05-01T11:00:00+02:00" -> 540
          [] s = "2024-05-01T09:15:00"       -> 555
          [] s = "2024-05-02T09:00:00"       -> 1980
          [] s = "2024-05-01"                -> 0
          [] s = "2024-05-02"                -> 1440]

\* int(value) of a JSON number or a string of digits; a float is truncated.
\* Outside the table int() raises ValueError (a string) or TypeError (null).
MinutesTable ==
    [s \in {"0", "15", "30", "120", "-90", "<2.5>"} |->
        CASE s = "0"     -> 0
          [] s = "15"    -> 15
          [] s = "30"    -> 30
          [] s = "120"   -> 120
          [] s = "-90"   -> -90
          [] s = "<2.5>" -> 2]

ALLOWED_APPOINTMENT_STATUSES == {"scheduled", "completed", "cancelled"}

AppointmentRequest(client_id, start_time, duration_minutes, status, assigned_to) ==
    [op |-> "create_appointment", client_id |-> client_id, start_time |-> start_time,
     duration_minutes |-> duration_minutes, status |-> status,
     assigned_to |-> assigned_to]

\* A single-step request of process 1 ends with a response.
Reply(op, code, error, id) ==
    /\ resp' = [resp EXCEPT ![1] = Response(op, code, error, id)]
    /\ UNCHANGED <<tickets, incidents, today, pc, req, sess, ops, tasks, updated_at,
                   forecast, users>>

\* How create_client_appointment ends: the error it aborts with, "" when the
\* appointment is stored.
CreateAppointmentError(r) ==
    IF r.client_id \notin Clients THEN "Not Found"
    ELSE IF r.start_time = Absent THEN "Field start_time is required"
    ELSE IF r.start_time \notin DOMAIN DateTimeTable THEN "Invalid start_time"
    ELSE IF r.duration_minutes # Absent /\ r.duration_minutes \notin DOMAIN MinutesTable
    THEN "duration_minutes must be an integer"
    ELSE IF r.duration_minutes # Absent /\ MinutesTable[r.duration_minutes] <= 0
    THEN "duration_minutes must be positive"
    ELSE IF Truthy(r.status) /\ Lower(r.status) \notin ALLOWED_APPOINTMENT_STATUSES
    THEN "Unsupported appointment status"
    ELSE ""

\* The Appointment object the handler adds to the session.
NewAppointment(r) ==
    AppointmentRow(
        r.client_id,
        DateTimeTable[r.start_time],
        IF r.duration_minutes = Absent THEN 60 ELSE MinutesTable[r.duration_minutes],
        \* sanitise_appointment_status(data.get("status"))
        IF Truthy(r.status) THEN Lower(r.status) ELSE "scheduled",
        \* data.get("assigned_to")
        IF r.assigned_to = Absent THEN Null ELSE r.assigned_to)

\* create_client_appointment: the appointment is stored, or the request is
\* refused and nothing is stored.
create_client_appointment(r) ==
    /\ pc[1] = "idle"
    /\ plan' = NoPlan
    /\ IF CreateAppointmentError(r) = ""
       THEN /\ appointments' = Append(appointments, NewAppointment(r))
            /\ Reply(r.op, 201, "", Len(appointments) + 1)
       ELSE /\ appointments' = appointments
            /\ Reply(r.op, IF CreateAppointmentError(r) = "Not Found" THEN 404 ELSE 400,
                     CreateAppointmentError(r), 0)

-----------------------------------------------------------------------------
(* POST /api/schedule/optimize *)

OptimiseRequest(date, travel_buffer_minutes, workday_minutes, engineers) ==
    [op |-> "optimise", date |-> date, travel_buffer_minutes |-> travel_buffer_minutes,
     workday_minutes |-> workday_minutes, engineers |-> engineers]

\* str(value) of an engineer's name.
Str(v) == IF v = Null THEN "None" ELSE IF v = NonStr THEN "5" ELSE v

\* int(data.get(key, default)): "ok" with the integer, or the exception raised.
IntOrDefault(v, default) ==
    IF v = Absent THEN [raised |-> "", value |-> default]
    ELSE IF v \in DOMAIN MinutesTable THEN [raised |-> "", value |-> MinutesTable[v]]
    ELSE IF v = Null THEN [raised |-> "TypeError", value |-> 0]
    ELSE [raised |-> "ValueError", value |-> 0]

\* engineer in engineer_slots
Registered(engineer_slots, engineer) ==
    \E k \in 1..Len(engineer_slots) : engineer_slots[k].engineer = engineer

\* engineer_slots[engineer]
SlotOf(engineer_slots, engineer) ==
    LET k == CHOOSE j \in 1..Len(engineer_slots) : engineer_slots[j].engineer = engineer
    IN engineer_slots[k].slot

\* engineer_slots[engineer] = slot: a new key goes to the end of the dict, an
\* old one keeps its place.
SetSlot(engineer_slots, engineer, slot) ==
    IF Registered(engineer_slots, engineer)
    THEN [k \in 1..Len(engineer_slots) |->
            IF engineer_slots[k].engineer = engineer
            THEN [engineer |-> engineer, slot |-> slot]
            ELSE engineer_slots[k]]
    ELSE Append(engineer_slots, [engineer |-> engineer, slot |-> slot])

\* A variant of EarliestEngineer: of the engineers free earliest, the last one.
EarliestEngineer_LastOfTies(engineer_slots) ==
    LET k == CHOOSE j \in 1..Len(engineer_slots) :
                \A i \in 1..Len(engineer_slots) :
                    \/ engineer_slots[j].slot < engineer_slots[i].slot
                    \/ engineer_slots[j].slot = engineer_slots[i].slot /\ j >= i
    IN engineer_slots[k].engineer

\* min(engineer_slots, key=engineer_slots.get): the first key, in the order of
\* the dict, among those with the least slot.
EarliestEngineer(engineer_slots) ==
    LET k == CHOOSE j \in 1..Len(engineer_slots) :
                \A i \in 1..Len(engineer_slots) :
                    \/ engineer_slots[j].slot < engineer_slots[i].slot
                    \/ engineer_slots[j].slot = engineer_slots[i].slot /\ j <= i
    IN engineer_slots[k].engineer

\* for engineer in engineers_input: engineer_slots[str(engineer)] = day_start
RECURSIVE InitialSlots(_, _, _)
InitialSlots(engineers_input, day_start, engineer_slots) ==
    IF engineers_input = <<>> THEN engineer_slots
    ELSE InitialSlots(Tail(engineers_input), day_start,
                      SetSlot(engineer_slots, Str(Head(engineers_input)), day_start))

\* .order_by(Appointment.start_time.asc()): the orders the query may return the
\* rows with these ids in. The rows come in ascending start_time; the order of
\* rows with the same start_time is left to the database engine.
OrderByStartTime(ids) ==
    {order \in [1..Cardinality(ids) -> ids] :
        \A i, j \in 1..Cardinality(ids) :
            i < j => /\ order[i] # order[j]
                     /\ appointments[order[i]].start_time
                          <= appointments[order[j]].start_time}

\* max(a, b) of two datetimes.
Later(a, b) == IF a >= b THEN a ELSE b

\* A variant of Visit: a moved start is annotated before the workday is looked at.
Visit_OverlapFirst(id, engineer_slots, suggestions, reassigned, travel_buffer, day_start, day_end) ==
    LET appointment == appointments[id]
        assigned == Truthy(appointment.assigned_to)
        registered ==
            IF assigned /\ ~Registered(engineer_slots, appointment.assigned_to)
            THEN SetSlot(engineer_slots, appointment.assigned_to, day_start)
            ELSE engineer_slots
        engineer ==
            IF assigned THEN appointment.assigned_to
            ELSE IF registered # <<>> THEN EarliestEngineer(registered)
            ELSE "Unassigned"
        slots ==
            IF ~assigned /\ registered = <<>>
            THEN SetSlot(registered, engineer, day_start)
            ELSE registered
        suggested_start == Later(appointment.start_time, SlotOf(slots, engineer))
        suggested_end   == suggested_start + appointment.duration_minutes
        reason ==
            IF suggested_start > appointment.start_time
            THEN "Resolved overlap with preceding visit"
            ELSE IF suggested_end + travel_buffer > day_end
            THEN "Extends beyond workday; consider another engineer"
            ELSE Null
    IN [engineer_slots |-> SetSlot(slots, engineer, suggested_end + travel_buffer),
        reassigned     |-> IF assigned THEN reassigned ELSE reassigned + 1,
        suggestions    |-> Append(suggestions,
            [appointment_id        |-> id,
             assigned_engineer     |-> appointment.assigned_to,
             recommended_engineer  |-> engineer,
             current_start         |-> appointment.start_time,
             optimized_start       |-> suggested_start,
             optimized_end         |-> suggested_end,
             travel_buffer_minutes |-> travel_buffer,
             notes                 |-> reason])]

\* A variant of Visit: every visit goes to the engineer who is free earliest.
Visit_Rebalances(id, engineer_slots, suggestions, reassigned, travel_buffer, day_start, day_end) ==
    LET appointment == appointments[id]
        assigned == Truthy(appointment.assigned_to)
        registered ==
            IF assigned /\ ~Registered(engineer_slots, appointment.assigned_to)
            THEN SetSlot(engineer_slots, appointment.assigned_to, day_start)
            ELSE engineer_slots
        engineer ==
            IF registered # <<>> THEN EarliestEngineer(registered)
            ELSE "Unassigned"
        slots ==
            IF ~assigned /\ registered = <<>>
            THEN SetSlot(registered, engineer, day_start)
            ELSE registered
        suggested_start == Later(appointment.start_time, SlotOf(slots, engineer))
        suggested_end   == suggested_start + appointment.duration_minutes
        reason ==
            IF suggested_end + travel_buffer > day_end
            THEN "Extends beyond workday; consider another engineer"
            ELSE IF suggested_start > appointment.start_time
            THEN "Resolved overlap with preceding visit"
            ELSE Null
    IN [engineer_slots |-> SetSlot(slots, engineer, suggested_end + travel_buffer),
        reassigned     |-> IF assigned THEN reassigned ELSE reassigned + 1,
        suggestions    |-> Append(suggestions,
            [appointment_id        |-> id,
             assigned_engineer     |-> appointment.assigned_to,
             recommended_engineer  |-> engineer,
             current_start         |-> appointment.start_time,
             optimized_start       |-> suggested_start,
             optimized_end         |-> suggested_end,
             travel_buffer_minutes |-> travel_buffer,
             notes                 |-> reason])]

\* The body of "for appointment in appointments": the slots, the suggestions
\* and the count of reassignments after the appointment with this id.
Visit(id, engineer_slots, suggestions, reassigned, travel_buffer, day_start, day_end) ==
    LET appointment == appointments[id]
        assigned == Truthy(appointment.assigned_to)
        registered ==
            IF assigned /\ ~Registered(engineer_slots, appointment.assigned_to)
            THEN SetSlot(engineer_slots, appointment.assigned_to, day_start)
            ELSE engineer_slots
        engineer ==
            IF assigned THEN appointment.assigned_to
            ELSE IF registered # <<>> THEN EarliestEngineer(registered)
            ELSE "Unassigned"
        slots ==
            IF ~assigned /\ registered = <<>>
            THEN SetSlot(registered, engineer, day_start)
            ELSE registered
        suggested_start == Later(appointment.start_time, SlotOf(slots, engineer))
        suggested_end   == suggested_start + appointment.duration_minutes
        reason ==
            IF suggested_end + travel_buffer > day_end
            THEN "Extends beyond workday; consider another engineer"
            ELSE IF suggested_start > appointment.start_time
            THEN "Resolved overlap with preceding visit"
            ELSE Null
    IN [engineer_slots |-> SetSlot(slots, engineer, suggested_end + travel_buffer),
        reassigned     |-> IF assigned THEN reassigned ELSE reassigned + 1,
        suggestions    |-> Append(suggestions,
            [appointment_id        |-> id,
             assigned_engineer     |-> appointment.assigned_to,
             recommended_engineer  |-> engineer,
             current_start         |-> appointment.start_time,
             optimized_start       |-> suggested_start,
             optimized_end         |-> suggested_end,
             travel_buffer_minutes |-> travel_buffer,
             notes                 |-> reason])]

\* The loop over the appointments of the day.
RECURSIVE Visits(_, _, _, _, _, _, _)
Visits(todo, engineer_slots, suggestions, reassigned, travel_buffer, day_start, day_end) ==
    IF todo = <<>>
    THEN [engineer_slots |-> engineer_slots, reassigned |-> reassigned,
          suggestions |-> suggestions]
    ELSE LET after == Visit(Head(todo), engineer_slots, suggestions, reassigned,
                            travel_buffer, day_start, day_end)
         IN Visits(Tail(todo), after.engineer_slots, after.suggestions,
                   after.reassigned, travel_buffer, day_start, day_end)

\* A variant of Considered: the status of the appointment is not looked at.
Considered_AnyStatus(target_date) ==
    {i \in 1..Len(appointments) :
        /\ appointments[i].start_time >= target_date * 1440
        /\ appointments[i].start_time <= target_date * 1440 + 1439}

\* The ids of the rows the query of optimise_schedule selects.
Considered(target_date) ==
    {i \in 1..Len(appointments) :
        /\ appointments[i].status = "scheduled"
        /\ appointments[i].start_time >= target_date * 1440
        /\ appointments[i].start_time <= target_date * 1440 + 1439}

\* The plan optimise_schedule returns for an accepted request when the query
\* returns the rows in this order.
SchedulePlan(r, considered, travel_buffer, workday_minutes) ==
    LET target_date == DateTimeTable[r.date] \div 1440
        day_start   == target_date * 1440 + 540
        day_end     == day_start + workday_minutes
        done == Visits(considered, InitialSlots(r.engineers, day_start, <<>>), <<>>, 0,
                       travel_buffer, day_start, day_end)
    IN [request |-> r, code |-> 200,
        date |-> target_date,
        appointments_considered |-> Len(considered),
        reassignments |-> done.reassigned,
        suggestions |-> done.suggestions,
        generated_at |-> today]

\* The plans optimise_schedule may return for an accepted request.
SchedulePlans(r) ==
    {SchedulePlan(r, considered, IntOrDefault(r.travel_buffer_minutes, 30).value,
                  IntOrDefault(r.workday_minutes, 480).value) :
        considered \in OrderByStartTime(Considered(DateTimeTable[r.date] \div 1440))}

\* How optimise_schedule ends without a plan: the error, "" when it plans.
OptimiseError(r) ==
    IF r.date = Absent THEN "A target date is required"
    ELSE IF r.date \notin DOMAIN DateTimeTable THEN "Invalid date"
    ELSE IF IntOrDefault(r.travel_buffer_minutes, 30).raised # ""
    THEN IntOrDefault(r.travel_buffer_minutes, 30).raised
    ELSE IntOrDefault(r.workday_minutes, 480).raised

\* A variant of optimise_schedule: the suggested start times are written to
\* the appointments.
optimise_schedule_Applies(r) ==
    LET error == OptimiseError(r)
        code  == IF error \in {"TypeError", "ValueError"} THEN 500 ELSE 400
    IN /\ pc[1] = "idle"
       /\ IF error = ""
          THEN /\ \E made \in SchedulePlans(r) :
                    /\ plan' = made
                    /\ appointments' =
                         [i \in 1..Len(appointments) |->
                             IF \E k \in 1..Len(made.suggestions) :
                                     made.suggestions[k].appointment_id = i
                             THEN [appointments[i] EXCEPT !.start_time =
                                     made.suggestions[
                                         CHOOSE k \in 1..Len(made.suggestions) :
                                             made.suggestions[k].appointment_id = i
                                     ].optimized_start]
                             ELSE appointments[i]]
               /\ Reply(r.op, 200, "", 0)
          ELSE /\ plan' = [request |-> r, code |-> code]
               /\ appointments' = appointments
               /\ Reply(r.op, code, error, 0)

\* optimise_schedule: the plan, or the error; the handler writes nothing.
optimise_schedule(r) ==
    LET error == OptimiseError(r)
        code  == IF error \in {"TypeError", "ValueError"} THEN 500 ELSE 400
    IN /\ pc[1] = "idle"
       /\ IF error = ""
          THEN /\ plan' \in SchedulePlans(r)
               /\ appointments' = appointments
               /\ Reply(r.op, 200, "", 0)
          ELSE /\ plan' = [request |-> r, code |-> code]
               /\ appointments' = appointments
               /\ Reply(r.op, code, error, 0)

-----------------------------------------------------------------------------
(* The appointment and optimise requests the model sends *)

\* The plain appointment request: a visit of Alice at 09:00.
PlainAppointment == <<1, "2024-05-01T09:00:00", Absent, Absent, "Alice">>

\* The values each field of a request that books a visit takes.
VisitFieldValues ==
    << {},
       {"2024-05-01T08:00:00", "2024-05-02T09:00:00"},
       {},
       {"Cancelled"},
       {Absent, "Bob"} >>

\* The visits booked before the day is planned.
VisitRequests ==
    {AppointmentRequest(t[1], t[2], t[3], t[4], t[5]) :
        t \in OneChanged(PlainAppointment, VisitFieldValues)}

\* The values each field of an optimise request takes.
OptimiseFieldValues ==
    << {Absent, "2024-05-02", "tomorrow"},
       {"0", "-90", "<2.5>", "abc", Null},
       {"120"},
       {<<"Alice">>, <<"Bob", "Alice">>} >>

\* The plain optimise request: the day alone; no engineers are named (a
\* missing key, null and [] all give the empty list).
PlainOptimise == <<"2024-05-01", Absent, Absent, <<>> >>

OptimiseRequests ==
    {OptimiseRequest(t[1], t[2], t[3], t[4]) :
        t \in OneChanged(PlainOptimise, OptimiseFieldValues)}

\* Visits are booked and the day is planned, one request at a time. Once a
\* plan is out, the same request is sent again or another visit is booked;
\* every other plan for the same visits is asked for right after the booking.
OptNext ==
    \/ /\ Len(appointments) < MaxAppts
       /\ \E r \in VisitRequests : create_client_appointment(r)
    \/ \E r \in OptimiseRequests :
          /\ IF plan = NoPlan THEN TRUE ELSE plan.request = r
          /\ optimise_schedule(r)

OptSpec == Init /\ [][OptNext]_vars

-----------------------------------------------------------------------------
(* PUT /api/appointments/<appointment_id> *)

MaxStored == 2    \* rows of the appointments table when appointments are edited

UpdateAppointmentRequest(appointment_id, start_time, duration_minutes, status, assigned_to) ==
    [op |-> "update_appointment", appointment_id |-> appointment_id,
     start_time |-> start_time, duration_minutes |-> duration_minutes,
     status |-> status, assigned_to |-> assigned_to]

\* How update_appointment ends: the error it aborts with, "" when it commits.
UpdateAppointmentError(r) ==
    IF r.appointment_id \notin 1..Len(appointments) THEN "Not Found"
    ELSE IF Truthy(r.status) /\ Lower(r.status) \notin ALLOWED_APPOINTMENT_STATUSES
    THEN "Unsupported appointment status"
    ELSE IF Truthy(r.start_time) /\ r.start_time \notin DOMAIN DateTimeTable
    THEN "Invalid start_time"
    ELSE IF r.duration_minutes = Null THEN "duration_minutes cannot be null"
    ELSE IF r.duration_minutes # Absent /\ r.duration_minutes \notin DOMAIN MinutesTable
    THEN "duration_minutes must be an integer"
    ELSE IF r.duration_minutes # Absent /\ MinutesTable[r.duration_minutes] <= 0
    THEN "duration_minutes must be positive"
    ELSE ""

\* The columns update_appointment assigns on the loaded row.
UpdatedAppointment(row, r) ==
    [row EXCEPT
        \* setattr(appointment, field, data[field])
        !.assigned_to = IF r.assigned_to # Absent THEN r.assigned_to ELSE @,
        \* sanitise_appointment_status(data.get("status"))
        !.status = IF r.status = Absent THEN @
                   ELSE IF Truthy(r.status) THEN Lower(r.status) ELSE "scheduled",
        \* if data["start_time"]: parse_iso_datetime(str(data["start_time"]), ...)
        !.start_time = IF Truthy(r.start_time) THEN DateTimeTable[r.start_time] ELSE @,
        !.duration_minutes =
            IF r.duration_minutes # Absent THEN MinutesTable[r.duration_minutes] ELSE @]

\* update_appointment: the row is rewritten and committed, or the request is
\* refused and the session is discarded with what was assigned on it.
update_appointment(r) ==
    /\ pc[1] = "idle"
    /\ plan' = NoPlan
    /\ IF UpdateAppointmentError(r) = ""
       THEN /\ appointments' = [appointments EXCEPT ![r.appointment_id] =
                                   UpdatedAppointment(@, r)]
            /\ Reply(r.op, 200, "", r.appointment_id)
       ELSE /\ appointments' = appointments
            /\ Reply(r.op, IF UpdateAppointmentError(r) = "Not Found" THEN 404 ELSE 400,
                     UpdateAppointmentError(r), 0)

-----------------------------------------------------------------------------
(* The requests that create and edit appointments *)

\* The values each field of a request to create an appointment takes.
AppointmentFieldValues ==
    << {9},
       {Absent, "2024-05-01T11:00:00+02:00", "next week"},
       {"15", "0", "-90", "<2.5>", "abc", Null},
       {Empty, "Cancelled", "bogus"},
       {Absent} >>

AppointmentRequests ==
    {AppointmentRequest(t[1], t[2], t[3], t[4], t[5]) :
        t \in OneChanged(PlainAppointment, AppointmentFieldValues)}

\* The values each field of a request to update an appointment takes.
UpdateFieldValues ==
    << {},
       {Empty, "2024-05-01T09:15:00", "next week"},
       {"30", "0", "<2.5>", "abc", Null},
       {Null, "Completed", "bogus"},
       {"Bob"} >>

\* The update that changes nothing: an empty JSON object.
PlainUpdate(i) == <<i, Absent, Absent, Absent, Absent>>

\* For every id a stored row can have, the plain update and the
\* updates one field away from it.
UpdateRequests ==
    {UpdateAppointmentRequest(t[1], t[2], t[3], t[4], t[5]) :
        t \in UNION {OneChanged(PlainUpdate(i), UpdateFieldValues) : i \in 1..MaxStored}}

\* Appointments are created and edited, one request at a time.
ApptNext ==
    \/ /\ Len(appointments) < MaxStored
       /\ \E r \in AppointmentRequests : create_client_appointment(r)
    \/ \E r \in UpdateRequests : update_appointment(r)

ApptSpec == Init /\ [][ApptNext]_vars
-----------------------------------------------------------------------------
(* /api/auth: register, login and two-factor authentication *)

MaxUsers == 2    \* rows of the users table

Passwords == {"pw1", "pw2"}

\* generate_password_hash(password): a salted digest, which is not the password.
generate_password_hash(password) == <<"pbkdf2:sha256", password>>

\* check_password_hash(pwhash, password)
check_password_hash(pwhash, password) == pwhash = generate_password_hash(password)

\* The secrets pyotp.random_base32() may return.
Secrets == {"JBSWY3DP", "KRSXG5CT"}

\* pyotp.TOTP(secret).now(): the code of a secret in the current time step.
TotpTable ==
    [s \in Secrets |-> IF s = "JBSWY3DP" THEN "492039" ELSE "071385"]

\* pyotp.TOTP(secret).verify(str(otp)): the code is the one of the current
\* time step; an older code of the secret and a code of another secret fail.
TotpVerify(secret, otp) == Str(otp) = TotpTable[secret]

\* A request of process 1 to an /auth handler ends with a response.
AuthReply(op, code, error, id) ==
    /\ resp' = [resp EXCEPT ![1] = Response(op, code, error, id)]
    /\ UNCHANGED <<tickets, incidents, today, pc, req, sess, ops, appointments, tasks,
                   updated_at, plan, forecast>>

\* User.query.filter_by(username=username).first(): the id, 0 when there is none.
UserNamed(username) ==
    IF \E i \in 1..Len(users) : users[i].username = username
    THEN CHOOSE i \in 1..Len(users) : users[i].username = username
    ELSE 0

RegisterRequest(username, email, password) ==
    [op |-> "register", username |-> username, email |-> email, password |-> password]

\* How register_user ends without a user: the error, "" when it stores one.
RegisterError(r) ==
    IF r.username = Absent \/ r.email = Absent \/ r.password = Absent
    THEN "Missing required user field"
    ELSE IF \E i \in 1..Len(users) : users[i].username = r.username
    THEN "Username already exists"
    ELSE IF \E i \in 1..Len(users) : users[i].email = r.email
    THEN "Email already registered"
    ELSE ""

\* POST /auth/register
register_user(r) ==
    /\ pc[1] = "idle"
    /\ IF RegisterError(r) = ""
       THEN /\ users' = Append(users,
                   [username |-> r.username, email |-> r.email,
                    password_hash |-> generate_password_hash(r.password),
                    two_factor_enabled |-> FALSE, two_factor_secret |-> Null])
            /\ AuthReply(r.op, 201, "", Len(users) + 1)
       ELSE /\ users' = users
            /\ AuthReply(r.op,
                         IF RegisterError(r) = "Missing required user field" THEN 400 ELSE 409,
                         RegisterError(r), 0)

LoginRequest(username, password, otp) ==
    [op |-> "login", username |-> username, password |-> password, otp |-> otp]

\* A variant of LoginOutcome: a login without a code is let in.
LoginOutcome_OtpOptional(r) ==
    LET id == UserNamed(r.username) IN
    IF ~Truthy(r.username) \/ ~Truthy(r.password)
    THEN [code |-> 400, error |-> "Username and password are required", id |-> 0]
    ELSE IF id = 0 \/ ~check_password_hash(users[id].password_hash, r.password)
    THEN [code |-> 401, error |-> "Invalid credentials", id |-> 0]
    ELSE IF users[id].two_factor_enabled /\ Truthy(r.otp)
            /\ ~TotpVerify(users[id].two_factor_secret, r.otp)
    THEN [code |-> 401, error |-> "Invalid authentication code", id |-> id]
    ELSE [code |-> 200, error |-> "", id |-> id]

\* How login_user ends: 200 is "Login successful", 202 asks for the code.
LoginOutcome(r) ==
    LET id == UserNamed(r.username) IN
    IF ~Truthy(r.username) \/ ~Truthy(r.password)
    THEN [code |-> 400, error |-> "Username and password are required", id |-> 0]
    ELSE IF id = 0 \/ ~check_password_hash(users[id].password_hash, r.password)
    THEN [code |-> 401, error |-> "Invalid credentials", id |-> 0]
    ELSE IF users[id].two_factor_enabled /\ ~Truthy(r.otp)
    THEN [code |-> 202, error |-> "Two-factor authentication code required", id |-> id]
    ELSE IF users[id].two_factor_enabled
            /\ ~TotpVerify(users[id].two_factor_secret, r.otp)
    THEN [code |-> 401, error |-> "Invalid authentication code", id |-> id]
    ELSE [code |-> 200, error |-> "", id |-> id]

\* POST /auth/login
login_user(r) ==
    /\ pc[1] = "idle"
    /\ users' = users
    /\ AuthReply(r.op, LoginOutcome(r).code, LoginOutcome(r).error, LoginOutcome(r).id)

\* The user ids of the requests, as the JSON body writes them.
Decimal == <<"1", "2", "3", "4">>

\* int(user_id)
IntOfUserId(user_id) == CHOOSE i \in 1..Len(Decimal) : Decimal[i] = user_id

TwoFactorRequest(op, user_id, password, otp) ==
    [op |-> op, user_id |-> user_id, password |-> password, otp |-> otp]

\* The checks setup_two_factor and disable_two_factor start with: the error,
\* "" when the user is found and the password is the user's.
PasswordError(r) ==
    IF r.user_id \in {Absent, Null} \/ r.password \in {Absent, Null}
    THEN "User id and password are required"
    ELSE IF IntOfUserId(r.user_id) \notin 1..Len(users) THEN "Not Found"
    ELSE IF ~check_password_hash(users[IntOfUserId(r.user_id)].password_hash, r.password)
    THEN "Invalid credentials"
    ELSE ""

\* The status of an error of the two-factor handlers.
AuthErrorCode(error) ==
    IF error = "Not Found" THEN 404
    ELSE IF error \in {"Invalid credentials", "Invalid authentication code"} THEN 401
    ELSE 400

\* POST /auth/two-factor/setup: a new secret is stored and two-factor is off
\* until the secret is verified.
setup_two_factor(r) ==
    /\ pc[1] = "idle"
    /\ IF PasswordError(r) = ""
       THEN /\ \E secret \in Secrets :
                  users' = [users EXCEPT ![IntOfUserId(r.user_id)].two_factor_secret = secret,
                                         ![IntOfUserId(r.user_id)].two_factor_enabled = FALSE]
            /\ AuthReply(r.op, 200, "", IntOfUserId(r.user_id))
       ELSE /\ users' = users
            /\ AuthReply(r.op, AuthErrorCode(PasswordError(r)), PasswordError(r), 0)

\* How verify_two_factor ends without enabling: the error, "" when it enables.
VerifyError(r) ==
    IF r.user_id \in {Absent, Null} \/ r.otp \in {Absent, Null}
    THEN "User id and otp are required"
    ELSE IF IntOfUserId(r.user_id) \notin 1..Len(users) THEN "Not Found"
    ELSE IF ~Truthy(users[IntOfUserId(r.user_id)].two_factor_secret)
    THEN "Two-factor setup not initiated"
    ELSE IF ~TotpVerify(users[IntOfUserId(r.user_id)].two_factor_secret, r.otp)
    THEN "Invalid authentication code"
    ELSE ""

\* POST /auth/two-factor/verify
verify_two_factor(r) ==
    /\ pc[1] = "idle"
    /\ IF VerifyError(r) = ""
       THEN /\ users' = [users EXCEPT ![IntOfUserId(r.user_id)].two_factor_enabled = TRUE]
            /\ AuthReply(r.op, 200, "", IntOfUserId(r.user_id))
       ELSE /\ users' = users
            /\ AuthReply(r.op, AuthErrorCode(VerifyError(r)), VerifyError(r), 0)

\* POST /auth/two-factor/disable
disable_two_factor(r) ==
    /\ pc[1] = "idle"
    /\ IF PasswordError(r) = ""
       THEN /\ users' = [users EXCEPT ![IntOfUserId(r.user_id)].two_factor_enabled = FALSE,
                                      ![IntOfUserId(r.user_id)].two_factor_secret = Null]
            /\ AuthReply(r.op, 200, "", IntOfUserId(r.user_id))
       ELSE /\ users' = users
            /\ AuthReply(r.op, AuthErrorCode(PasswordError(r)), PasswordError(r), 0)

-----------------------------------------------------------------------------
(* The requests to /api/auth the model sends *)

\* The codes a request carries: the current code of each secret, which is a
\* wrong code for the other secret, or none.
Otps == {TotpTable[s] : s \in Secrets} \cup {Absent}

RegisterRequests ==
    {RegisterRequest("ann", "ann@crm", "pw1"), RegisterRequest("bob", "bob@crm", "pw2"),
     RegisterRequest("ann", "ann2@crm", "pw2"), RegisterRequest("cat", "ann@crm", "pw1"),
     RegisterRequest("dan", "dan@crm", Absent)}

LoginRequests ==
    {LoginRequest(u, p, o) : u \in {"ann", "bob"}, p \in Passwords, o \in Otps}
      \cup {LoginRequest("ann", Absent, Absent), LoginRequest("eve", "pw1", Absent)}

PasswordRequests(op) ==
    {TwoFactorRequest(op, Decimal[i], p, Absent) : i \in 1..(MaxUsers + 1), p \in Passwords}
      \cup {TwoFactorRequest(op, Absent, "pw1", Absent),
            TwoFactorRequest(op, "1", Absent, Absent)}

VerifyRequests ==
    {TwoFactorRequest("verify", Decimal[i], Absent, o) : i \in 1..(MaxUsers + 1), o \in Otps}

\* Users register, log in and manage their second factor, one request at a time.
AuthNext ==
    \/ /\ Len(users) < MaxUsers
       /\ \E r \in RegisterRequests : register_user(r)
    \/ \E r \in LoginRequests : login_user(r)
    \/ \E r \in PasswordRequests("setup") : setup_two_factor(r)
    \/ \E r \in VerifyRequests : verify_two_factor(r)
    \/ \E r \in PasswordRequests("disable") : disable_two_factor(r)

AuthSpec == Init /\ [][AuthNext]_vars

-----------------------------------------------------------------------------
(* Vocabulary of the properties *)

\* Process p's request leaves the lookup stage in this step.
LookupStep(p) == pc[p] = "received" /\ pc'[p] # "received"

\* Process p's request commits (or fails to commit) in this step.
CommitStep(p) == pc[p] = "staged" /\ pc'[p] = "idle"

\* The ids of the incidents of a table that carry the zabbix key k.
WithKey(incs, k) ==
    {i \in 1..Len(incs) : incs[i].source = "zabbix" /\ incs[i].external_id = k}

\* The ids of the tickets of a table that ingest opened for key k (their subject
\* names the event when the event carries no problem text).
TicketsOfKey(tks, k) ==
    {t \in 1..Len(tks) : tks[t].subject = <<"[Zabbix] ", "Zabbix incident ", k>>}

\* A request with every required field, a client_id that resolves to a client.
Accepted(r) ==
    /\ r.event_id # Absent /\ r.client_id # Absent
    /\ r.severity # Absent /\ r.message # Absent
    /\ r.client_id \in {"1", "2"}

-----------------------------------------------------------------------------
(* C1: in sequential runs, an ingest whose (source, external_id) key already  *)
(* has an incident adds no ticket and no incident, leaves exactly one         *)
(* incident for the key, updates that incident and no other, and answers with *)
(* the non-created response (200, the existing incident's id).                *)

C1_Redelivery(p) ==
    LET r  == req[p]
        id == CHOOSE i \in WithKey(incidents, r.event_id) : TRUE
    IN /\ Len(tickets') = Len(tickets)
       /\ Len(incidents') = Len(incidents)
       /\ WithKey(incidents', r.event_id) = {id}
       /\ \A i \in 1..Len(incidents) : i # id => incidents'[i] = incidents[i]
       /\ LookupStep(p) /\ Accepted(r) => pc'[p] = "staged"
       /\ CommitStep(p) =>
            /\ resp'[p].code = 200
            /\ resp'[p].id = id
            /\ incidents'[id].severity = StrLower(r.severity)
            /\ incidents'[id].message = r.message

C1_IdempotentRedelivery ==
    [][\A p \in Procs :
          (/\ LookupStep(p) \/ CommitStep(p)
           /\ req[p].op = "ingest"
           /\ WithKey(incidents, req[p].event_id) # {})
          => C1_Redelivery(p)]_vars

\* A redelivered event was answered as an update.
C1_Witness ==
    /\ resp[1].op = "ingest" /\ resp[1].code = 200
    /\ Len(incidents) = 1 /\ Len(tickets) = 1
    /\ ops >= 2

-----------------------------------------------------------------------------
(* C2: under every interleaving of ingest requests, each key has at most one  *)
(* incident and at most one ticket in every reachable state.                  *)

C2_AtMostOnePerKey ==
    \A k \in EventIds :
        /\ Cardinality(WithKey(incidents, k)) <= 1
        /\ Cardinality(TicketsOfKey(tickets, k)) <= 1

\* Two requests for one new key both staged a create; one committed, the other
\* was refused by the unique constraint.
C2_Witness ==
    \E p, q \in Procs :
        /\ p # q
        /\ resp[p].code = 201
        /\ resp[q].error = "IntegrityError"
        /\ Len(incidents) = 1

-----------------------------------------------------------------------------
(* C3: in every reachable state, after any ingest and PATCH requests, no two  *)
(* stored incidents have the same (source, external_id).                      *)

C3_DedupKeyUnique ==
    \A i, j \in 1..Len(incidents) :
        (/\ incidents[i].source = incidents[j].source
         /\ incidents[i].external_id = incidents[j].external_id) => i = j

\* Two incidents are stored and a PATCH has been applied.
C3_Witness ==
    /\ Len(incidents) = 2
    /\ \E p \in Procs : resp[p].op = "patch" /\ resp[p].code = 200

-----------------------------------------------------------------------------
(* C4: in sequential runs, an accepted ingest for a key without an incident   *)
(* (occurred_at absent, empty or parseable) creates exactly one ticket and    *)
(* one incident linked to it; the ticket has priority priority_for(lowercased *)
(* severity), status open, the given assignee or "Monitoring", and due_date   *)
(* today + 1 exactly when the priority is high (unset otherwise).             *)

C4_Created(p) ==
    LET r == req[p]
        t == Len(tickets) + 1
        i == Len(incidents) + 1
    IN /\ Len(tickets') = t
       /\ Len(incidents') = i
       /\ \A k \in 1..Len(tickets) : tickets'[k] = tickets[k]
       /\ \A k \in 1..Len(incidents) : incidents'[k] = incidents[k]
       /\ incidents'[i].ticket_id = t
       /\ incidents'[i].external_id = r.event_id
       /\ tickets'[t].priority = priority_for(StrLower(r.severity))
       /\ tickets'[t].status = "open"
       /\ tickets'[t].assigned_to =
            (IF r.assigned_to \in {Absent, Empty} THEN "Monitoring" ELSE r.assigned_to)
       /\ (tickets'[t].priority = "high") => tickets'[t].due_date = today + 1
       /\ (tickets'[t].priority # "high") => tickets'[t].due_date = NoDate
       /\ resp'[p].code = 201 /\ resp'[p].id = i

C4_CreatePath ==
    [][\A p \in Procs :
          (/\ req[p].op = "ingest"
           /\ Accepted(req[p])
           /\ req[p].occurred_at \in {Absent, Empty} \cup IsoStrings
           /\ WithKey(incidents, req[p].event_id) = {})
          => /\ LookupStep(p) => pc'[p] = "staged"
             /\ CommitStep(p) => C4_Created(p)]_vars

\* A high ticket with its due date and a low ticket without one were created,
\* one of them for a given assignee.
C4_Witness ==
    /\ Len(tickets) = 2 /\ Len(incidents) = 2
    /\ tickets[1].priority = "high" /\ tickets[1].due_date = 2
    /\ tickets[1].assigned_to = "bob"
    /\ tickets[2].priority = "low" /\ tickets[2].due_date = NoDate
    /\ tickets[2].assigned_to = "Monitoring"
    /\ resp[1].code = 201

-----------------------------------------------------------------------------
(* C5: in sequential runs, when an ingest hits an existing incident that has  *)
(* a linked ticket and the event's lowercased status is resolved or ok, the   *)
(* linked ticket's status is resolved after the request and no ticket was     *)
(* added.                                                                     *)

C5_ResolvesTicket ==
    [][\A p \in Procs :
          (/\ CommitStep(p)
           /\ req[p].op = "ingest"
           /\ WithKey(incidents, req[p].event_id) # {}
           /\ StrLower(req[p].status) \in {"resolved", "ok"})
          => LET id == CHOOSE i \in WithKey(incidents, req[p].event_id) : TRUE
                 t  == incidents[id].ticket_id
             IN /\ Len(tickets') = Len(tickets)
                /\ t # NoTicket => tickets'[t].status = "resolved"]_vars

\* An event with status OK was applied to an incident whose ticket is now resolved.
C5_Witness ==
    \E i \in 1..Len(incidents) :
        /\ incidents[i].status = "ok"
        /\ incidents[i].ticket_id # NoTicket
        /\ tickets[incidents[i].ticket_id].status = "resolved"
        /\ resp[1].op = "ingest" /\ resp[1].code = 200 /\ resp[1].id = i

-----------------------------------------------------------------------------
(* C6: priority_for is total on the lowercased severity: disaster and high    *)
(* give high, average and warning normal, information and not_classified low, *)
(* every other value normal; no severity makes the request fail, and the      *)
(* priority is always one of low, normal, high.                               *)

C6_Table(severity) ==
    CASE severity \in {"disaster", "high"}              -> "high"
      [] severity \in {"average", "warning"}            -> "normal"
      [] severity \in {"information", "not_classified"} -> "low"
      [] OTHER                                          -> "normal"

C6_PriorityTable ==
    [][\A p \in Procs :
          (req[p].op = "ingest" /\ WithKey(incidents, req[p].event_id) = {})
          => /\ LookupStep(p) =>
                 /\ pc'[p] = "staged"
                 /\ sess'[p].ticket.priority = C6_Table(StrLower(req[p].severity))
             /\ CommitStep(p) =>
                 /\ resp'[p].code = 201
                 /\ tickets'[Len(tickets')].priority = C6_Table(StrLower(req[p].severity))
                 /\ tickets'[Len(tickets')].priority \in {"low", "normal", "high"}]_vars

\* An unlisted severity gave a normal ticket and a listed one in capitals a low one.
C6_Witness ==
    /\ Len(tickets) = 2 /\ Len(incidents) = 2
    /\ incidents[1].severity = "bogus" /\ tickets[1].priority = "normal"
    /\ incidents[2].severity = "not_classified" /\ tickets[2].priority = "low"

-----------------------------------------------------------------------------
(* C7: in every state reached by ingest requests alone, failing ones          *)
(* included, every ticket has its incident and every incident its ticket.     *)

C7_BothOrNeither ==
    /\ Len(tickets) = Len(incidents)
    /\ \A t \in 1..Len(tickets) :
          Cardinality({i \in 1..Len(incidents) : incidents[i].ticket_id = t}) = 1
    /\ \A i \in 1..Len(incidents) : incidents[i].ticket_id \in 1..Len(tickets)

\* One create was refused at its commit and another request was refused for its
\* occurred_at, after a ticket and its incident were stored.
C7_Witness ==
    /\ \E p \in Procs : resp[p].error = "IntegrityError"
    /\ \E p \in Procs : resp[p].error = "Invalid occurred_at"
    /\ Len(tickets) = 1

-----------------------------------------------------------------------------
(* C8: a request that staged a create and finds the key taken at its commit   *)
(* (it lost the race for a new key) ends as a Conflict (409) or as an update  *)
(* of the existing incident (200), never as an unclassified failure.          *)

C8_LoserClassified ==
    [][\A p \in Procs :
          (/\ CommitStep(p)
           /\ sess[p].kind = "create"
           /\ WithKey(incidents, sess[p].incident.external_id) # {})
          => resp'[p].code \in {200, 409}]_vars

-----------------------------------------------------------------------------
(* C9, as claimed: every ingest whose occurred_at is present and does not     *)
(* parse as ISO-8601 (a non-empty string that is no ISO-8601 date) ends 400   *)
(* and leaves tickets and incidents as they were, whether or not the key has  *)
(* an incident.                                                               *)

C9_BadString(r) == r.occurred_at \notin {Absent, Empty, Null, NonStr} \cup IsoStrings

-----------------------------------------------------------------------------
(* C10: in sequential runs, an ingest that lacks event id, client_id,         *)
(* severity or message ends 400, one whose client_id is no integer ends 400,  *)
(* one whose client_id names no client ends 404; none of them changes a       *)
(* ticket or an incident, also when the event's key has an incident.          *)

C10_Lacks(r) ==
    Absent \in {r.event_id, r.client_id, r.severity, r.message}

C10_RejectedUnchanged ==
    [][\A p \in Procs :
          (/\ LookupStep(p)
           /\ req[p].op = "ingest"
           /\ C10_Lacks(req[p]) \/ req[p].client_id \notin {"1", "2"})
          => /\ tickets' = tickets
             /\ incidents' = incidents
             /\ pc'[p] = "idle"
             /\ resp'[p].code =
                  (IF C10_Lacks(req[p]) \/ req[p].client_id = "x" THEN 400 ELSE 404)]_vars

\* With an incident stored for every key, a request without a required field
\* was refused.
C10_Witness ==
    /\ \A k \in EventIds : WithKey(incidents, k) # {}
    /\ resp[1].code = 400
    /\ resp[1].error = "Missing required Zabbix event fields"

-----------------------------------------------------------------------------
(* Vocabulary of the properties of the optimiser *)

\* The suggestions of the last plan; none when the last request made no plan.
Suggestions == IF plan.code = 200 THEN plan.suggestions ELSE <<>>

\* Suggestion i was made before suggestion j for the same engineer.
SameEngineer(i, j) ==
    /\ i < j
    /\ Suggestions[i].recommended_engineer = Suggestions[j].recommended_engineer

-----------------------------------------------------------------------------
(* C11: a request to optimise, whether it is answered with a plan or with an  *)
(* error, leaves the appointments table as it was: the same rows with the     *)
(* same assigned_to, start_time, duration_minutes and status.                 *)

C11_ReadOnly ==
    [][(plan' # NoPlan /\ resp'[1].op = "optimise") => appointments' = appointments]_vars

\* A plan moved a visit to a later start while the stored appointment kept
\* its start_time.
C11_Witness ==
    /\ plan.code = 200
    /\ \E k \in 1..Len(plan.suggestions) :
          /\ plan.suggestions[k].optimized_start > plan.suggestions[k].current_start
          /\ appointments[plan.suggestions[k].appointment_id].start_time
                = plan.suggestions[k].current_start

-----------------------------------------------------------------------------
(* C12: in every plan, of two suggestions for the same engineer the one made  *)
(* later starts at or after the end of the earlier one plus the travel        *)
(* buffer, and the two visits do not overlap.                                 *)

C12_NoOverlap ==
    \A i, j \in 1..Len(Suggestions) :
        SameEngineer(i, j) =>
            /\ Suggestions[j].optimized_start
                 >= Suggestions[i].optimized_end + Suggestions[i].travel_buffer_minutes
            /\ \/ Suggestions[i].optimized_end <= Suggestions[j].optimized_start
               \/ Suggestions[j].optimized_end <= Suggestions[i].optimized_start

-----------------------------------------------------------------------------
(* C13: in every plan, the values optimized_end + travel_buffer of the        *)
(* suggestions of one engineer never decrease in processing order.            *)

C13_Monotonic ==
    \A i, j \in 1..Len(Suggestions) :
        SameEngineer(i, j) =>
            Suggestions[i].optimized_end + Suggestions[i].travel_buffer_minutes
              <= Suggestions[j].optimized_end + Suggestions[j].travel_buffer_minutes

-----------------------------------------------------------------------------
(* C14: in every plan, an appointment without an assigned engineer is         *)
(* recommended the registered engineer whose slot is earliest when it is      *)
(* processed, the one registered first among equals; the engineers are        *)
(* registered in the order of the request's list, then in the order they are  *)
(* first met on earlier appointments; "Unassigned" is recommended only when   *)
(* no engineer is registered.                                                 *)

\* The engineers registered before suggestion k is made, in order.
C14_Registered(k) ==
    FirstSeen([i \in 1..Len(plan.request.engineers) |-> Str(plan.request.engineers[i])]
                \o [i \in 1..(k - 1) |-> Suggestions[i].recommended_engineer], <<>>)

\* The slot of an engineer before suggestion k is made.
C14_Slot(engineer, k) ==
    LET earlier == {i \in 1..(k - 1) : Suggestions[i].recommended_engineer = engineer}
    IN IF earlier = {} THEN plan.date * 1440 + 540
       ELSE Suggestions[MaxOf(earlier)].optimized_end
              + Suggestions[MaxOf(earlier)].travel_buffer_minutes

C14_EarliestFirst ==
    \A k \in 1..Len(Suggestions) :
        ~Truthy(Suggestions[k].assigned_engineer) =>
            LET registered == C14_Registered(k)
                engineer   == Suggestions[k].recommended_engineer
            IN IF registered = <<>>
               THEN engineer = "Unassigned"
               ELSE \E n \in 1..Len(registered) :
                      /\ registered[n] = engineer
                      /\ \A m \in 1..Len(registered) :
                            \/ C14_Slot(engineer, k) < C14_Slot(registered[m], k)
                            \/ /\ C14_Slot(engineer, k) = C14_Slot(registered[m], k)
                               /\ n <= m

\* With Bob and Alice named in the request, an unassigned visit went to Bob
\* after Alice was booked, and the next one to Bob again, who was registered
\* first, when both were free at the same time.
C14_Witness ==
    /\ plan.code = 200
    /\ plan.request.engineers = <<"Bob", "Alice">>
    /\ \E i, j, k \in 1..Len(plan.suggestions) :
          /\ i < j /\ j < k
          /\ plan.suggestions[i].assigned_engineer = "Alice"
          /\ plan.suggestions[j].assigned_engineer = Null
          /\ plan.suggestions[j].recommended_engineer = "Bob"
          /\ plan.suggestions[k].assigned_engineer = Null
          /\ plan.suggestions[k].recommended_engineer = "Bob"
          /\ plan.suggestions[k].optimized_start
                = plan.suggestions[i].optimized_end + plan.suggestions[i].travel_buffer_minutes

-----------------------------------------------------------------------------
(* C15: a request to optimise that supplies a travel_buffer_minutes which is  *)
(* not a positive integer (zero, negative, not an integer) is answered 400    *)
(* and gets no plan.                                                          *)

C15_BufferValidated ==
    (/\ plan # NoPlan
     /\ plan.request.travel_buffer_minutes # Absent
     /\ plan.request.travel_buffer_minutes \notin {"15", "30", "120"})
    => plan.code = 400
-----------------------------------------------------------------------------
(* C16: for every store the churn scorer is called on, the probability it     *)
(* returns lies between 0.05 and 0.95, and the level is high exactly when the *)
(* probability is at least 0.6, medium exactly when it is at least 0.35 and   *)
(* below 0.6, low otherwise; the same holds of the probability as reported    *)
(* (rounded to two decimals).                                                 *)

C16_Level(high, medium) ==
    IF high THEN "high" ELSE IF medium THEN "medium" ELSE "low"

C16_ChurnBounds ==
    forecast.made =>
        \A c \in Clients :
            LET probability == forecast.returned[c].probability
                level       == forecast.returned[c].label
            IN /\ FloatLeq(FloatDiv(5, 100), probability)
               /\ FloatLeq(probability, FloatDiv(95, 100))
               /\ level = C16_Level(FloatGeq(probability, FloatDiv(6, 10)),
                                    FloatGeq(probability, FloatDiv(35, 100)))
               /\ level = C16_Level(Hundredths(probability) >= 60,
                                    Hundredths(probability) >= 35)
               /\ forecast.client_churn[c].churn_level = level

\* A client with every risk factor was scored at the cap and high, a client
\* without any at the base and low.
C16_Witness ==
    /\ forecast.made
    /\ Len(tickets) >= 6
    /\ today - updated_at[1] > 30
    /\ forecast.returned[1].probability = FloatDiv(95, 100)
    /\ forecast.returned[1].label = "high"
    /\ forecast.returned[2].probability = FloatDiv(5, 100)
    /\ forecast.returned[2].label = "low"

-----------------------------------------------------------------------------
(* C17: the churn probability of a client is, to two decimals (as it is       *)
(* reported) and within 2^-50 as a float, min(0.95, 0.05 + min(0.3, 0.05 *    *)
(* open tickets) + min(0.3, 0.10 * open high-priority tickets) + min(0.2,     *)
(* 0.08 * overdue tasks) + 0.10 if an appointment is cancelled + 0.05 if the  *)
(* client was updated more than 30 days ago), a task being overdue iff it is  *)
(* not completed and has a due date before today.                             *)

C17_Min(a, b) == IF a <= b THEN a ELSE b

\* The formula of the claim for client c, in hundredths.
C17_Formula(c) ==
    LET open_tickets == Cardinality({i \in 1..Len(tickets) :
                            tickets[i].client_id = c /\ tickets[i].status = "open"})
        open_high    == Cardinality({i \in 1..Len(tickets) :
                            /\ tickets[i].client_id = c /\ tickets[i].status = "open"
                            /\ tickets[i].priority = "high"})
        overdue      == Cardinality({i \in 1..Len(tasks) :
                            /\ tasks[i].client_id = c
                            /\ tasks[i].status # "completed"
                            /\ tasks[i].due_date # NoDate
                            /\ tasks[i].due_date < today})
        cancelled    == \E i \in 1..Len(appointments) :
                            /\ appointments[i].client_id = c
                            /\ appointments[i].status = "cancelled"
    IN C17_Min(95, 5 + C17_Min(30, 5 * open_tickets) + C17_Min(30, 10 * open_high)
                     + C17_Min(20, 8 * overdue)
                     + (IF cancelled THEN 10 ELSE 0)
                     + (IF today - updated_at[c] > 30 THEN 5 ELSE 0))

C17_ChurnFormula ==
    forecast.made =>
        \A c \in Clients :
            LET probability == forecast.returned[c].probability
                claimed     == FloatDiv(C17_Formula(c), 100)
            IN /\ Hundredths(probability) = C17_Formula(c)
               /\ forecast.client_churn[c].churn_probability = claimed
               /\ FloatLeq(probability, BinAdd(claimed, {-50}))
               /\ FloatLeq(claimed, BinAdd(probability, {-50}))

\* The client with three open tickets, one of them high, and nothing else,
\* touched five days ago, was scored 0.30 and low.
C17_Witness ==
    /\ forecast.made
    /\ Len(tickets) = 3 /\ tasks = <<>> /\ appointments = <<>>
    /\ Cardinality({i \in 1..3 : tickets[i].priority = "high"}) = 1
    /\ today - updated_at[1] = 5
    /\ Hundredths(forecast.returned[1].probability) = 30
    /\ forecast.returned[1].label = "low"

-----------------------------------------------------------------------------
(* C18: the engineer-load result has exactly one entry per engineer name that *)
(* has a non-completed task or a scheduled appointment and none for anyone    *)
(* else; open_tasks counts the engineer's non-completed tasks,                *)
(* scheduled_minutes sums the durations of their scheduled appointments,      *)
(* utilisation is min(1, scheduled_minutes / 480), and the status is          *)
(* overloaded iff min(1, 0.05 * open_tasks + utilisation) >= 0.8,             *)
(* underutilised iff it is <= 0.35, balanced otherwise.                       *)

\* min(1, 0.05 * open_tasks + min(1, minutes / 480)), in 9600ths.
C18_Score(open_tasks, minutes) ==
    C17_Min(9600, 480 * open_tasks + C17_Min(9600, 20 * minutes))

C18_Status(open_tasks, minutes) ==
    IF C18_Score(open_tasks, minutes) >= 7680 THEN "overloaded"
    ELSE IF C18_Score(open_tasks, minutes) <= 3360 THEN "underutilised"
    ELSE "balanced"

C18_OpenTasks(e) ==
    {i \in 1..Len(tasks) : tasks[i].status # "completed" /\ tasks[i].assigned_to = e}

C18_Visits(e) ==
    {i \in 1..Len(appointments) :
        appointments[i].status = "scheduled" /\ appointments[i].assigned_to = e}

C18_Engineers ==
    {e \in {"alice", "bob"} : C18_OpenTasks(e) # {} \/ C18_Visits(e) # {}}

C18_LoadAsClaimed ==
    forecast.made =>
        LET load == forecast.engineer_load
        IN /\ {load[k].engineer : k \in 1..Len(load)} = C18_Engineers
           /\ Len(load) = Cardinality(C18_Engineers)
           /\ \A k \in 1..Len(load) :
                LET e       == load[k].engineer
                    minutes == SumMinutes(Pick(appointments, C18_Visits(e)))
                IN /\ load[k].open_tasks = Cardinality(C18_OpenTasks(e))
                   /\ load[k].scheduled_minutes = minutes
                   /\ Hundredths(load[k].utilisation) * 480 = 100 * C17_Min(480, minutes)
                   /\ load[k].status = C18_Status(load[k].open_tasks, minutes)
-----------------------------------------------------------------------------
(* Vocabulary of the properties of the update path *)

\* Process p commits an ingest that hit the incident with this id.
UpdateCommit(p, id) ==
    /\ CommitStep(p)
    /\ req[p].op = "ingest"
    /\ WithKey(incidents, req[p].event_id) = {id}

-----------------------------------------------------------------------------
(* C19 as stated: in sequential runs, after an ingest that hits an existing   *)
(* incident the incident's severity is the lowercased severity of the event   *)
(* and its message the event's message, and its status is the lowercased      *)
(* status of the event whenever the event has a status field, and unchanged   *)
(* when it has none.                                                          *)

C19_StatusWhenProvided ==
    [][\A p \in Procs : \A id \in 1..Len(incidents) :
          UpdateCommit(p, id) =>
              /\ incidents'[id].severity = StrLower(req[p].severity)
              /\ incidents'[id].message = req[p].message
              /\ incidents'[id].status =
                   (IF req[p].status # Absent
                    THEN StrLower(req[p].status)
                    ELSE incidents[id].status)]_vars

(* C19 amended: the same, with the status overwritten only when the event     *)
(* has a non-empty status; an empty status leaves it unchanged as an absent   *)
(* one does.                                                                  *)

C19_StatusWhenNonEmpty ==
    [][\A p \in Procs : \A id \in 1..Len(incidents) :
          UpdateCommit(p, id) =>
              /\ incidents'[id].severity = StrLower(req[p].severity)
              /\ incidents'[id].message = req[p].message
              /\ incidents'[id].status =
                   (IF req[p].status \notin {Absent, Empty}
                    THEN StrLower(req[p].status)
                    ELSE incidents[id].status)]_vars

\* An incident created as a disaster with message m1 was hit by three events:
\* its severity, its message and its status are those of later events.
C19_Witness ==
    /\ ops = 3
    /\ resp[1].op = "ingest" /\ resp[1].code = 200
    /\ \E i \in 1..Len(incidents) :
          /\ resp[1].id = i
          /\ incidents[i].message = "m2"
          /\ incidents[i].status = "resolved"

-----------------------------------------------------------------------------
(* C20: in sequential runs, an ingest that hits an existing incident changes  *)
(* nothing but that incident's severity, message and status and the status of *)
(* its linked ticket: the incident's other columns, the ticket's other        *)
(* columns, every other row and the number of rows stay as they were,         *)
(* whatever client_id, occurred_at, problem, assignee or severity the event   *)
(* carries.                                                                   *)

C20_UpdateFrame ==
    [][\A p \in Procs : \A id \in 1..Len(incidents) :
          (/\ LookupStep(p) \/ CommitStep(p)
           /\ req[p].op = "ingest"
           /\ WithKey(incidents, req[p].event_id) = {id})
          => /\ Len(incidents') = Len(incidents)
             /\ Len(tickets') = Len(tickets)
             /\ \A i \in 1..Len(incidents) :
                   incidents'[i] =
                     IF i = id
                     THEN [incidents[i] EXCEPT !.severity = incidents'[i].severity,
                                               !.message  = incidents'[i].message,
                                               !.status   = incidents'[i].status]
                     ELSE incidents[i]
             /\ \A t \in 1..Len(tickets) :
                   tickets'[t] =
                     IF t = incidents[id].ticket_id
                     THEN [tickets[t] EXCEPT !.status = tickets'[t].status]
                     ELSE tickets[t]]_vars

\* An incident of client 1 whose ticket is high was hit by an event of low
\* severity that names client 2: the incident is still client 1's and the
\* ticket is still high.
C20_Witness ==
    /\ resp[1].op = "ingest" /\ resp[1].code = 200
    /\ \E i \in 1..Len(incidents) :
          /\ resp[1].id = i
          /\ incidents[i].severity = "information"
          /\ incidents[i].client_id = 1
          /\ incidents[i].ticket_id # NoTicket
          /\ tickets[incidents[i].ticket_id].priority = "high"
-----------------------------------------------------------------------------
(* C21: in sequential runs, when an ingest (creating or updating) or a PATCH  *)
(* sets the status of an incident to resolved or ok and the incident has a    *)
(* linked ticket, that ticket's status is resolved after the request.         *)

C21_ResolvedTogether ==
    [][\A p \in Procs :
          (/\ CommitStep(p)
           /\ resp'[p].code \in {200, 201}
           /\ req[p].status # Absent
           /\ StrLower(req[p].status) \in {"resolved", "ok"})
          => LET t == incidents'[resp'[p].id].ticket_id
             IN /\ incidents'[resp'[p].id].status = StrLower(req[p].status)
                /\ t # NoTicket => tickets'[t].status = "resolved"]_vars

-----------------------------------------------------------------------------
(* C26: in sequential runs of ingest and PATCH requests, also of PATCH        *)
(* requests that set ticket_id, no ticket is referenced by more than one      *)
(* incident.                                                                  *)

C26_OneToOne ==
    \A i, j \in 1..Len(incidents) :
        (/\ incidents[i].ticket_id # NoTicket
         /\ incidents[i].ticket_id = incidents[j].ticket_id) => i = j

\* A PATCH gave the second incident the ticket of the first, which now has none.
C26_Witness ==
    /\ Len(incidents) = 2
    /\ incidents[1].ticket_id = NoTicket
    /\ incidents[2].ticket_id = 1
    /\ resp[1].op = "patch" /\ resp[1].code = 200 /\ resp[1].id = 2

-----------------------------------------------------------------------------
(* C28: in sequential runs, an ingest for a key whose incident is linked to a *)
(* resolved ticket leaves that ticket resolved, also when the event sets the  *)
(* incident's status back to problem.                                         *)

C28_NeverReopens ==
    [][\A p \in Procs : \A id \in 1..Len(incidents) :
          (/\ LookupStep(p) \/ CommitStep(p)
           /\ req[p].op = "ingest"
           /\ WithKey(incidents, req[p].event_id) = {id}
           /\ incidents[id].ticket_id # NoTicket
           /\ tickets[incidents[id].ticket_id].status = "resolved")
          => tickets'[incidents[id].ticket_id].status = "resolved"]_vars

\* After an event that resolved the ticket, a later event for the key set the
\* incident back to problem; the ticket is still resolved.
C28_Witness ==
    /\ resp[1].op = "ingest" /\ resp[1].code = 200
    /\ \E i \in 1..Len(incidents) :
          /\ resp[1].id = i
          /\ incidents[i].status = "problem"
          /\ incidents[i].ticket_id # NoTicket
          /\ tickets[incidents[i].ticket_id].status = "resolved"
-----------------------------------------------------------------------------
(* C22: in every plan, a suggestion carries the workday annotation exactly    *)
(* when optimized_end + travel_buffer is later than day_end (09:00 of the     *)
(* target date + workday_minutes), moved or not; otherwise the overlap        *)
(* annotation exactly when optimized_start is later than the original         *)
(* start_time; otherwise null.                                                *)

\* day_end of the last plan, in minutes.
C22_DayEnd ==
    plan.date * 1440 + 540
      + (IF plan.request.workday_minutes = Absent THEN 480
         ELSE MinutesTable[plan.request.workday_minutes])

C22_Annotation ==
    \A k \in 1..Len(Suggestions) :
        LET s == Suggestions[k] IN
        s.notes =
          IF s.optimized_end + s.travel_buffer_minutes > C22_DayEnd
          THEN "Extends beyond workday; consider another engineer"
          ELSE IF s.optimized_start > s.current_start
          THEN "Resolved overlap with preceding visit"
          ELSE Null

\* One plan holds a visit that was moved and runs past the workday, and another
\* visit that stays within it.
C22_Witness ==
    /\ plan.code = 200
    /\ \E j, k \in 1..Len(plan.suggestions) :
          /\ plan.suggestions[j].notes = Null
          /\ plan.suggestions[k].optimized_start > plan.suggestions[k].current_start
          /\ plan.suggestions[k].notes = "Extends beyond workday; consider another engineer"

-----------------------------------------------------------------------------
(* C23: every plan has exactly one suggestion for each stored appointment     *)
(* that is scheduled and starts on the target date and none for any other,    *)
(* lists them in ascending original start_time, and reports their number as   *)
(* appointments_considered; when there is no such appointment the plan is     *)
(* empty with zero reassignments.                                             *)

\* The stored appointments that are scheduled on the day of the last plan.
C23_OfTheDay ==
    {i \in 1..Len(appointments) :
        /\ appointments[i].status = "scheduled"
        /\ appointments[i].start_time \div 1440 = plan.date}

C23_OnePerAppointment ==
    plan.code = 200 =>
        /\ \A i \in C23_OfTheDay :
              Cardinality({k \in 1..Len(plan.suggestions) :
                              plan.suggestions[k].appointment_id = i}) = 1
        /\ \A k \in 1..Len(plan.suggestions) :
              /\ plan.suggestions[k].appointment_id \in C23_OfTheDay
              /\ plan.suggestions[k].current_start
                   = appointments[plan.suggestions[k].appointment_id].start_time
        /\ \A j, k \in 1..Len(plan.suggestions) :
              j < k => plan.suggestions[j].current_start <= plan.suggestions[k].current_start
        /\ plan.appointments_considered = Len(plan.suggestions)
        /\ C23_OfTheDay = {} => plan.suggestions = <<>> /\ plan.reassignments = 0

\* A plan of two visits was made while a third appointment, cancelled or of
\* another day, is stored.
C23_Witness ==
    /\ plan.code = 200
    /\ Len(plan.suggestions) = 2
    /\ Len(appointments) = 3
    /\ plan.suggestions[1].current_start < plan.suggestions[2].current_start

-----------------------------------------------------------------------------
(* C24: in every plan, a suggestion for an appointment that has an assigned   *)
(* engineer recommends that engineer, and reassignments is the number of      *)
(* suggestions for appointments without an assigned engineer.                 *)

C24_KeepsAssigned ==
    plan.code = 200 =>
        /\ \A k \in 1..Len(plan.suggestions) :
              Truthy(plan.suggestions[k].assigned_engineer) =>
                  plan.suggestions[k].recommended_engineer
                    = plan.suggestions[k].assigned_engineer
        /\ plan.reassignments =
              Cardinality({k \in 1..Len(plan.suggestions) :
                              ~Truthy(plan.suggestions[k].assigned_engineer)})

\* Alice keeps her second visit, for which she is free late, although Bob is
\* registered and free; one other visit had no engineer.
C24_Witness ==
    /\ plan.code = 200
    /\ plan.request.engineers = <<"Bob", "Alice">>
    /\ plan.reassignments = 1
    /\ \E k \in 1..Len(plan.suggestions) :
          /\ plan.suggestions[k].assigned_engineer = "Alice"
          /\ plan.suggestions[k].recommended_engineer = "Alice"
          /\ plan.suggestions[k].optimized_start > plan.suggestions[k].current_start

-----------------------------------------------------------------------------
(* C25: two requests to optimise with the same parameters over the same       *)
(* stored appointments, one after the other, get the same suggestions and the *)
(* same count of reassignments, also when appointments share a start_time.    *)

C25_Deterministic ==
    [][(/\ plan.code = 200 /\ plan'.code = 200
        /\ plan'.request = plan.request
        /\ appointments' = appointments)
       => /\ plan'.suggestions = plan.suggestions
          /\ plan'.reassignments = plan.reassignments]_vars

-----------------------------------------------------------------------------
(* C29: in every plan, each suggestion's optimized_start is at or after the   *)
(* appointment's original start_time and at or after 09:00 of the target      *)
(* date.                                                                      *)

C29_NotBeforeDayStart ==
    \A k \in 1..Len(Suggestions) :
        /\ Suggestions[k].optimized_start >= Suggestions[k].current_start
        /\ Suggestions[k].optimized_start >= plan.date * 1440 + 540
-----------------------------------------------------------------------------
(* C27: after create and update requests every stored appointment has a       *)
(* status among scheduled, completed, cancelled and duration_minutes >= 1,    *)
(* and a request that carries an unsupported status or a duration that is not *)
(* a positive integer is refused and leaves the appointments as they were.    *)

\* The request carries an unsupported status, or a duration that is zero,
\* negative or not an integer.
C27_Unacceptable(r) ==
    \/ Truthy(r.status) /\ Lower(r.status) \notin {"scheduled", "completed", "cancelled"}
    \/ r.duration_minutes \notin {Absent, "15", "30", "120"}

C27_ValidAppointments ==
    [][/\ \A i \in 1..Len(appointments') :
             /\ appointments'[i].status \in {"scheduled", "completed", "cancelled"}
             /\ appointments'[i].duration_minutes >= 1
       /\ \A r \in AppointmentRequests \cup UpdateRequests :
             (/\ C27_Unacceptable(r)
              /\ IF r.op = "update_appointment"
                 THEN update_appointment(r)
                 ELSE create_client_appointment(r))
             => /\ appointments' = appointments
                /\ resp'[1].code >= 400]_vars
-----------------------------------------------------------------------------
(* C30: after register, setup, verify and disable requests every user with    *)
(* two_factor_enabled has a two_factor_secret, and a login of such a user is  *)
(* answered "Login successful" only if the request carries the password the   *)
(* user registered with and the current code of the user's secret.            *)

C30_SecondFactor ==
    [][/\ \A i \in 1..Len(users') :
             users'[i].two_factor_enabled => users'[i].two_factor_secret \in Secrets
       /\ \A i \in 1..Len(users) :
             (users[i].two_factor_enabled /\ resp'[1].code = 200)
             => \A r \in LoginRequests :
                   (users[i].username = r.username /\ login_user(r))
                   => /\ users[i].password_hash = generate_password_hash(r.password)
                      /\ r.otp = TotpTable[users[i].two_factor_secret]]_vars

\* A user with two-factor enabled has logged in.
C30_Witness ==
    /\ resp[1].op = "login" /\ resp[1].code = 200
    /\ resp[1].id \in 1..Len(users)
    /\ users[resp[1].id].two_factor_enabled

=============================================================================
